---- MODULE Spec2Model ----
(***************************************************************************)
(* Statement dispatch and virtual catalog of the MindsDB SQL command       *)
(* layer: ExecuteCommands (executor_commands.py), InformationSchemaDataNode*)
(* (information_schema_datanode.py) and ProjectDataNode                    *)
(* (project_datanode.py).  Collaborators that live outside these files     *)
(* (model controller, project controller, query_df, TablesRow) are         *)
(* modelled from their documented contract.                                *)
(***************************************************************************)
EXTENDS Integers, Sequences, FiniteSets, TLC

(***************************************************************************)
(* Bounds                                                                  *)
(***************************************************************************)
\* highest model version number a RETRAIN may allocate
MaxVersion == 3

\* bound: the number of model versions on record at once
MaxRecords == 2

\* Python None
NONE == "None"

\* model names statements may mention
ModelNames == {"m"}

\* database names statements may mention; "nodb" never names a database
ProjectNames == {"mindsdb", "proj"}

VARIABLES
    projects,      \* names of the registered projects (ProjectController)
    integrations,  \* registered integrations: records [name, engine, type, listable]
    predictors,    \* db.Predictor records of all projects (model controller)
    entities,      \* jobs, skills, agents, ... of all projects (their controllers)
    database,      \* session.database
    stmt,          \* the statement (or background step) executed last
    routine,       \* the routine execute_command handled it with
    answer,        \* what the last statement returned or raised
    views,         \* stored view definitions: records [project, name, query]
    files,         \* names of the tables of the 'files' database
    calls,         \* the calls the last statement made to its collaborators
    sessions,      \* each session's position in its RETRAIN or FINETUNE
    clock,         \* the time, in half hours
    training_start_at,  \* of the versions the sessions started: the start time
    engine_storage,     \* BYOM engine storage: its files and connection args
    model_wrapper,      \* BYOMHandler.model_wrapper of the handler instance
    byom_type,          \* BYOMHandler._byom_type of the handler instance
    finetune_records    \* the base and the finetuned db.Predictor record

vars == <<projects, integrations, predictors, entities, database, stmt, routine, answer,
          views, files, calls, sessions, clock, training_start_at, engine_storage,
          model_wrapper, byom_type, finetune_records>>

\* the variables of the concurrent sessions and of the BYOM handler
handler_vars == <<sessions, clock, training_start_at, engine_storage, model_wrapper,
                  byom_type, finetune_records>>

\* the sessions that issue statements concurrently
Sessions == {1, 2}

(***************************************************************************)
(* Catalog Table Registry                                                  *)
(***************************************************************************)
information_schema_keys ==
    <<"SCHEMATA", "TABLES", "COLUMNS", "EVENTS", "ROUTINES", "TRIGGERS",
      "PLUGINS", "ENGINES", "KEY_COLUMN_USAGE", "STATISTICS", "CHARACTER_SETS",
      "COLLATIONS", "MODELS", "MODELS_VERSIONS", "DATABASES", "ML_ENGINES",
      "HANDLERS", "JOBS", "MDB_TRIGGERS", "JOBS_HISTORY", "CHATBOTS",
      "KNOWLEDGE_BASES", "SKILLS", "AGENTS">>

Range(s) == {s[i] : i \in 1..Len(s)}

information_schema_names == Range(information_schema_keys)

information_schema ==
    "SCHEMATA" :> <<"CATALOG_NAME", "SCHEMA_NAME", "DEFAULT_CHARACTER_SET_NAME", "DEFAULT_COLLATION_NAME", "SQL_PATH">> @@
    "TABLES" :> <<"TABLE_CATALOG", "TABLE_SCHEMA", "TABLE_NAME", "TABLE_TYPE", "ENGINE", "VERSION", "ROW_FORMAT", "TABLE_ROWS", "AVG_ROW_LENGTH", "DATA_LENGTH", "MAX_DATA_LENGTH", "INDEX_LENGTH", "DATA_FREE", "AUTO_INCREMENT", "CREATE_TIME", "UPDATE_TIME", "CHECK_TIME", "TABLE_COLLATION", "CHECKSUM", "CREATE_OPTIONS", "TABLE_COMMENT">> @@
    "COLUMNS" :> <<"TABLE_CATALOG", "TABLE_SCHEMA", "TABLE_NAME", "COLUMN_NAME", "ORDINAL_POSITION", "COLUMN_DEFAULT", "IS_NULLABLE", "DATA_TYPE", "CHARACTER_MAXIMUM_LENGTH", "CHARACTER_OCTET_LENGTH", "NUMERIC_PRECISION", "NUMERIC_SCALE", "DATETIME_PRECISION", "CHARACTER_SET_NAME", "COLLATION_NAME", "COLUMN_TYPE", "COLUMN_KEY", "EXTRA", "PRIVILEGES", "COLUMN_COMMENT", "GENERATION_EXPRESSION">> @@
    "EVENTS" :> <<"EVENT_CATALOG", "EVENT_SCHEMA", "EVENT_NAME", "DEFINER", "TIME_ZONE", "EVENT_BODY", "EVENT_DEFINITION", "EVENT_TYPE", "EXECUTE_AT", "INTERVAL_VALUE", "INTERVAL_FIELD", "SQL_MODE", "STARTS", "ENDS", "STATUS", "ON_COMPLETION", "CREATED", "LAST_ALTERED", "LAST_EXECUTED", "EVENT_COMMENT", "ORIGINATOR", "CHARACTER_SET_CLIENT", "COLLATION_CONNECTION", "DATABASE_COLLATION">> @@
    "ROUTINES" :> <<"SPECIFIC_NAME", "ROUTINE_CATALOG", "ROUTINE_SCHEMA", "ROUTINE_NAME", "ROUTINE_TYPE", "DATA_TYPE", "CHARACTER_MAXIMUM_LENGTH", "CHARACTER_OCTET_LENGTH", "NUMERIC_PRECISION", "NUMERIC_SCALE", "DATETIME_PRECISION", "CHARACTER_SET_NAME", "COLLATION_NAME", "DTD_IDENTIFIER", "ROUTINE_BODY", "ROUTINE_DEFINITION", "EXTERNAL_NAME", "EXTERNAL_LANGUAGE", "PARAMETER_STYLE", "IS_DETERMINISTIC", "SQL_DATA_ACCESS", "SQL_PATH", "SECURITY_TYPE", "CREATED", "LAST_ALTERED", "SQL_MODE", "ROUTINE_COMMENT", "DEFINER", "CHARACTER_SET_CLIENT", "COLLATION_CONNECTION", "DATABASE_COLLATION">> @@
    "TRIGGERS" :> <<"TRIGGER_CATALOG", "TRIGGER_SCHEMA", "TRIGGER_NAME", "EVENT_MANIPULATION", "EVENT_OBJECT_CATALOG", "EVENT_OBJECT_SCHEMA", "EVENT_OBJECT_TABLE", "ACTION_ORDER", "ACTION_CONDITION", "ACTION_STATEMENT", "ACTION_ORIENTATION", "ACTION_TIMING", "ACTION_REFERENCE_OLD_TABLE", "ACTION_REFERENCE_NEW_TABLE", "ACTION_REFERENCE_OLD_ROW", "ACTION_REFERENCE_NEW_ROW", "CREATED", "SQL_MODE", "DEFINER", "CHARACTER_SET_CLIENT", "COLLATION_CONNECTION", "DATABASE_COLLATION">> @@
    "PLUGINS" :> <<"PLUGIN_NAME", "PLUGIN_VERSION", "PLUGIN_STATUS", "PLUGIN_TYPE", "PLUGIN_TYPE_VERSION", "PLUGIN_LIBRARY", "PLUGIN_LIBRARY_VERSION", "PLUGIN_AUTHOR", "PLUGIN_DESCRIPTION", "PLUGIN_LICENSE", "LOAD_OPTION", "PLUGIN_MATURITY", "PLUGIN_AUTH_VERSION">> @@
    "ENGINES" :> <<"ENGINE", "SUPPORT", "COMMENT", "TRANSACTIONS", "XA", "SAVEPOINTS">> @@
    "KEY_COLUMN_USAGE" :> <<"CONSTRAINT_CATALOG", "CONSTRAINT_SCHEMA", "CONSTRAINT_NAME", "TABLE_CATALOG", "TABLE_SCHEMA", "TABLE_NAME", "COLUMN_NAME", "ORDINAL_POSITION", "POSITION_IN_UNIQUE_CONSTRAINT", "REFERENCED_TABLE_SCHEMA", "REFERENCED_TABLE_NAME", "REFERENCED_COLUMN_NAME">> @@
    "STATISTICS" :> <<"TABLE_CATALOG", "TABLE_SCHEMA", "TABLE_NAME", "NON_UNIQUE", "INDEX_SCHEMA", "INDEX_NAME", "SEQ_IN_INDEX", "COLUMN_NAME", "COLLATION", "CARDINALITY", "SUB_PART", "PACKED", "NULLABLE", "INDEX_TYPE", "COMMENT", "INDEX_COMMENT", "IS_VISIBLE", "EXPRESSION">> @@
    "CHARACTER_SETS" :> <<"CHARACTER_SET_NAME", "DEFAULT_COLLATE_NAME", "DESCRIPTION", "MAXLEN">> @@
    "COLLATIONS" :> <<"COLLATION_NAME", "CHARACTER_SET_NAME", "ID", "IS_DEFAULT", "IS_COMPILED", "SORTLEN", "PAD_ATTRIBUTE">> @@
    "MODELS" :> <<"NAME", "ENGINE", "PROJECT", "VERSION", "STATUS", "ACCURACY", "PREDICT", "UPDATE_STATUS", "MINDSDB_VERSION", "ERROR", "SELECT_DATA_QUERY", "TRAINING_OPTIONS", "CURRENT_TRAINING_PHASE", "TOTAL_TRAINING_PHASES", "TRAINING_PHASE_NAME", "TAG", "CREATED_AT", "TRAINING_TIME">> @@
    "MODELS_VERSIONS" :> <<"NAME", "ENGINE", "PROJECT", "ACTIVE", "VERSION", "STATUS", "ACCURACY", "PREDICT", "UPDATE_STATUS", "MINDSDB_VERSION", "ERROR", "SELECT_DATA_QUERY", "TRAINING_OPTIONS", "TAG", "CREATED_AT", "TRAINING_TIME">> @@
    "DATABASES" :> <<"NAME", "TYPE", "ENGINE", "CONNECTION_DATA">> @@
    "ML_ENGINES" :> <<"NAME", "HANDLER", "CONNECTION_DATA">> @@
    "HANDLERS" :> <<"NAME", "TYPE", "TITLE", "DESCRIPTION", "VERSION", "CONNECTION_ARGS", "IMPORT_SUCCESS", "IMPORT_ERROR">> @@
    "JOBS" :> <<"NAME", "PROJECT", "START_AT", "END_AT", "NEXT_RUN_AT", "SCHEDULE_STR", "QUERY", "VARIABLES">> @@
    "MDB_TRIGGERS" :> <<"NAME", "PROJECT", "DATABASE", "TABLE", "QUERY", "LAST_ERROR">> @@
    "JOBS_HISTORY" :> <<"NAME", "PROJECT", "RUN_START", "RUN_END", "ERROR", "QUERY">> @@
    "CHATBOTS" :> <<"NAME", "PROJECT", "DATABASE", "MODEL_NAME", "PARAMS", "IS_RUNNING", "LAST_ERROR">> @@
    "KNOWLEDGE_BASES" :> <<"NAME", "PROJECT", "MODEL", "STORAGE">> @@
    "SKILLS" :> <<"NAME", "PROJECT", "TYPE", "PARAMS">> @@
    "AGENTS" :> <<"NAME", "PROJECT", "MODEL_NAME", "SKILLS", "PARAMS">>


(***************************************************************************)
(* Parsed statements (mindsdb_sql AST nodes)                               *)
(***************************************************************************)
Identifier(parts) == [type |-> "Identifier", parts |-> parts, alias |-> NONE]

IdentifierAs(parts, alias) == [type |-> "Identifier", parts |-> parts, alias |-> alias]

Constant(value) == [type |-> "Constant", value |-> value]

ConstantAs(value, alias) == [type |-> "Constant", value |-> value, alias |-> alias]

BinaryOperation(op, args) == [type |-> "BinaryOperation", op |-> op, args |-> args]

Star == [type |-> "Star"]

\* where=None
NoWhere == [type |-> "NoneType"]

Select(targets, from_table, where) ==
    [type |-> "Select", targets |-> targets, from_table |-> from_table, where |-> where]

Last(s) == s[Len(s)]

\* str.upper() on the identifiers statements use
upper(s) ==
    CASE s = "version" -> "VERSION"
      [] s = "name" -> "NAME"
      [] s = "project" -> "PROJECT"
      [] s = "active" -> "ACTIVE"
      [] s = "table_schema" -> "TABLE_SCHEMA"
      [] s = "table_name" -> "TABLE_NAME"
      [] s = "table_type" -> "TABLE_TYPE"
      [] s = "models" -> "MODELS"
      [] s = "models_versions" -> "MODELS_VERSIONS"
      [] s = "tables" -> "TABLES"
      [] s = "knowledge_bases" -> "KNOWLEDGE_BASES"
      [] s = "jobs" -> "JOBS"
      [] s = "jobs_history" -> "JOBS_HISTORY"
      [] s = "mdb_triggers" -> "MDB_TRIGGERS"
      [] s = "chatbots" -> "CHATBOTS"
      [] s = "skills" -> "SKILLS"
      [] s = "agents" -> "AGENTS"
      [] s = "information_schema" -> "INFORMATION_SCHEMA"
      [] s = "mindsdb" -> "MINDSDB"
      [] s = "proj" -> "PROJ"
      [] s = "files" -> "FILES"
      [] s = "pg" -> "PG"
      [] s = "full" -> "FULL"
      [] OTHER -> s

\* str.lower() on the names statements use
lower(s) ==
    CASE s = "PROJ" -> "proj"
      [] s = "MINDSDB" -> "mindsdb"
      [] s = "FILES" -> "files"
      [] s = "INFORMATION_SCHEMA" -> "information_schema"
      [] s = "TABLES" -> "tables"
      [] s = "MODELS" -> "models"
      [] s = "MODELS_VERSIONS" -> "models_versions"
      [] s = "Models_Versions" -> "models_versions"
      [] s = "PG" -> "pg"
      [] s = "ACTIVE" -> "active"
      [] OTHER -> s

(***************************************************************************)
(* Answers                                                                 *)
(***************************************************************************)
AnswerOK == [type |-> "OK", error |-> NONE, message |-> NONE, data |-> {}]

AnswerTable(data) == [type |-> "TABLE", error |-> NONE, message |-> NONE, data |-> data]

\* an exception leaving execute_command
Raise(error, message) == [type |-> "ERROR", error |-> error, message |-> message, data |-> {}]

(***************************************************************************)
(* Model controller (mindsdb.interfaces.model)                             *)
(***************************************************************************)
Max(S) == CHOOSE x \in S : \A y \in S : y <= x

\* every version of project.name, active or not
get_model_records(project, name) ==
    {p \in predictors : p.project = project /\ p.name = name}

\* get_model_record(name, project_name, version, active):
\* version = 0 stands for version=None, which selects the active record
get_model_record(name, project, version) ==
    {p \in get_model_records(project, name) :
        IF version = 0 THEN p.active ELSE p.version = version}

\* ModelController.create_model: version 1 of a new name, active at once
create_model(project, name) ==
    IF project \notin projects
    THEN [err |-> "EntityNotExistsError", msg |-> "Project not found", predictors |-> predictors]
    ELSE IF get_model_records(project, name) # {}
    THEN [err |-> "Exception", msg |-> "already exists", predictors |-> predictors]
    ELSE [err |-> NONE, msg |-> NONE,
          predictors |-> predictors \cup
             {[project |-> project, name |-> name, version |-> 1, active |-> TRUE,
               status |-> "training", set_active |-> TRUE]}]

\* ModelController.retrain_model: one more version of an existing model,
\* numbered after the highest existing one, inactive while it trains
retrain_model(project, name, set_active) ==
    IF get_model_record(name, project, 0) = {}
    THEN [err |-> "Exception", msg |-> "does not exist", predictors |-> predictors]
    ELSE [err |-> NONE, msg |-> NONE,
          predictors |-> predictors \cup
             {[project |-> project, name |-> name,
               version |-> Max({p.version : p \in get_model_records(project, name)}) + 1,
               active |-> FALSE, status |-> "training", set_active |-> set_active]}]

\* end of the learn process of version p: on success a version trained with
\* set_active becomes the only active version of its name; set_active is an
\* argument of the process and is gone with it
learn_process(p, ok) ==
    IF ~ok
    THEN (predictors \ {p}) \cup {[p EXCEPT !.status = "error", !.set_active = FALSE]}
    ELSE IF ~p.set_active
    THEN (predictors \ {p}) \cup {[p EXCEPT !.status = "complete", !.set_active = FALSE]}
    ELSE {q \in predictors : ~(q.project = p.project /\ q.name = p.name)}
         \cup {[q EXCEPT !.active = FALSE] :
                 q \in get_model_records(p.project, p.name) \ {p}}
         \cup {[p EXCEPT !.status = "complete", !.active = TRUE, !.set_active = FALSE]}

\* the Predictor records the rows [NAME, PROJECT, VERSION] stand for
RecordsOf(models) ==
    {p \in predictors : \E m \in models :
        p.name = m.NAME /\ p.project = m.PROJECT /\ p.version = m.VERSION}

\* ModelController.update_model_version(models, **kwargs)
update_model_version(models, kwargs) ==
    IF "active" \notin DOMAIN kwargs
    THEN [err |-> "NotImplementedError", msg |-> "Update is not supported", predictors |-> predictors]
    ELSE IF kwargs["active"] = 0
    THEN [err |-> "NotImplementedError", msg |-> "Only setting active version is possible", predictors |-> predictors]
    ELSE IF Cardinality(RecordsOf(models)) # 1
    THEN [err |-> "Exception", msg |-> "Only one version can be updated", predictors |-> predictors]
    ELSE LET p == CHOOSE q \in RecordsOf(models) : TRUE
         IN [err |-> NONE, msg |-> NONE,
             predictors |->
               {q \in predictors : ~(q.project = p.project /\ q.name = p.name)}
               \cup {[q EXCEPT !.active = FALSE] :
                       q \in get_model_records(p.project, p.name) \ {p}}
               \cup {[p EXCEPT !.active = TRUE]}]

\* delete_model_version without the guard on the active version
delete_model_version_unguarded(models) ==
    IF RecordsOf(models) = {}
    THEN [err |-> "Exception", msg |-> "is not found", predictors |-> predictors]
    ELSE [err |-> NONE, msg |-> NONE, predictors |-> predictors \ RecordsOf(models)]

\* ModelController.delete_model_version(models)
delete_model_version(models) ==
    IF RecordsOf(models) = {}
    THEN [err |-> "Exception", msg |-> "is not found", predictors |-> predictors]
    ELSE IF \E p \in RecordsOf(models) : p.active
    THEN [err |-> "Exception", msg |-> "Can't remove active version", predictors |-> predictors]
    ELSE [err |-> NONE, msg |-> NONE, predictors |-> predictors \ RecordsOf(models)]

\* DatabaseController.get_project(name).drop_model(model_name)
drop_model(project, name) ==
    IF project \notin projects
    THEN [err |-> "EntityNotExistsError", msg |-> "Project not found", predictors |-> predictors]
    ELSE IF get_model_records(project, name) = {}
    THEN [err |-> "Exception", msg |-> "does not exist", predictors |-> predictors]
    ELSE [err |-> NONE, msg |-> NONE,
          predictors |-> predictors \ get_model_records(project, name)]

\* Project.get_models(active=True | None): rows name/metadata of one project
get_models(project, only_active) ==
    {p \in predictors : p.project = project /\ (only_active => p.active)}


(***************************************************************************)
(* query_df: the generic tabular filter / projection evaluator             *)
(***************************************************************************)
Index(seq, c) == CHOOSE i \in 1..Len(seq) : seq[i] = c

\* the value a DataFrame row of table t holds in column c
Cell(t, row, c) == row[Index(information_schema[t], c)]

\* a DataFrame row of table t, addressed by column name
RowRec(t, row) ==
    [c \in Range(information_schema[t]) |-> Cell(t, row, c)]

EvalArg(a, t, row) ==
    IF a.type = "Identifier" THEN Cell(t, row, upper(Last(a.parts))) ELSE a.value

RECURSIVE EvalWhere(_, _, _)
EvalWhere(w, t, row) ==
    CASE w.type = "NoneType" -> TRUE
      [] w.type = "BinaryOperation" /\ w.op = "and" ->
            EvalWhere(w.args[1], t, row) /\ EvalWhere(w.args[2], t, row)
      [] w.type = "BinaryOperation" /\ w.op = "or" ->
            EvalWhere(w.args[1], t, row) \/ EvalWhere(w.args[2], t, row)
      [] w.type = "BinaryOperation" /\ w.op = "=" ->
            EvalArg(w.args[1], t, row) = EvalArg(w.args[2], t, row)
      [] w.type = "BinaryOperation" /\ w.op = "like" ->
            \/ EvalArg(w.args[2], t, row) = "%"
            \/ EvalArg(w.args[1], t, row) = EvalArg(w.args[2], t, row)

OutName(t) == IF t.alias # NONE THEN t.alias ELSE upper(Last(t.parts))

\* the value of a target in a row: a constant is its own value
TargetValue(x, t, row) ==
    IF x.type = "Constant" THEN x.value ELSE Cell(t, row, upper(Last(x.parts)))

ProjectRow(targets, t, row) ==
    IF targets[1].type = "Star" THEN RowRec(t, row)
    ELSE [k \in {OutName(targets[i]) : i \in 1..Len(targets)} |->
            TargetValue(CHOOSE x \in Range(targets) : OutName(x) = k, t, row)]

\* query_df(df, query): the rows of df the WHERE keeps, projected on the targets
query_df(t, df, query) ==
    {ProjectRow(query.targets, t, row) :
        row \in {x \in df : EvalWhere(query.where, t, x)}}

(***************************************************************************)
(* Collaborators of the catalog                                            *)
(***************************************************************************)
\* TablesRow(...).to_list(): one value per column of TABLES
TablesRow(TABLE_SCHEMA, TABLE_NAME, TABLE_TYPE) ==
    <<"def", TABLE_SCHEMA, TABLE_NAME, TABLE_TYPE, NONE, NONE, NONE, NONE, NONE,
      NONE, NONE, NONE, NONE, NONE, NONE, NONE, NONE, NONE, NONE, NONE, NONE>>

\* IntegrationController.get_all()
integration_names == {i.name : i \in integrations}

\* DatabaseController.get_list(): information_schema, projects, data integrations
get_list ==
    {[name |-> "information_schema", type |-> "system", engine |-> NONE]}
    \cup {[name |-> p, type |-> "project", engine |-> NONE] : p \in projects}
    \cup {[name |-> "files", type |-> "data", engine |-> "files"]}
    \cup {[name |-> i.name, type |-> "data", engine |-> i.engine] :
             i \in {j \in integrations : j.type # "ml"}}

\* DatabaseController.exists(db_name)
exists(db_name) == \E d \in get_list : d.name = db_name

\* the catalog-backed tables every project has (Project.get_tables)
ProjectTables ==
    {"models", "models_versions", "jobs", "jobs_history", "mdb_triggers",
     "chatbots", "skills", "agents"}

\* Project.get_tables(): name -> type
project_get_tables(project) ==
    {[name |-> t, type |-> "table"] : t \in ProjectTables}
    \cup {[name |-> p.name, type |-> "model"] : p \in get_models(project, TRUE)}
    \cup {[name |-> v.name, type |-> "view"] : v \in {x \in views : x.project = project}}

\* Project.get_columns(table_name)
project_get_columns(project, table_name) ==
    IF table_name \in ProjectTables
    THEN information_schema[upper(table_name)]
    ELSE <<"predicted">>

\* tables of the 'files' database
FilesTables == files

\* ProjectController.get(name=...): the named project; without a name the
\* first project on record.  {} stands for the not-found error.
ProjectController_get(name) ==
    IF name = NONE
    THEN (IF "mindsdb" \in projects THEN {"mindsdb"} ELSE projects)
    ELSE {p \in projects : lower(p) = lower(name)}

(***************************************************************************)
(* InformationSchemaDataNode                                               *)
(***************************************************************************)
\* self.persis_datanodes
persis_datanodes == {"files"}

\* InformationSchemaDataNode.get(name): the data node a database name resolves to
get(name) ==
    LET name_lower == lower(name) IN
    IF name_lower = "information_schema"
    THEN [type |-> "INFORMATION_SCHEMA", name |-> "information_schema"]
    ELSE IF name_lower \in persis_datanodes
    THEN [type |-> "integration", name |-> name_lower]
    ELSE IF \E d \in get_list : lower(d.name) = name_lower /\ d.type = "project"
    THEN [type |-> "project",
          name |-> CHOOSE d \in projects : lower(d) = name_lower]
    ELSE IF \E i \in integration_names : lower(i) = name_lower
    THEN [type |-> "integration",
          name |-> CHOOSE i \in integration_names : lower(i) = name_lower]
    ELSE [type |-> NONE, name |-> NONE]

has_table(tableName) == upper(tableName) \in DOMAIN information_schema

\* get_table_columns: <<>> stands for ErTableExistError
get_table_columns(tableName) ==
    IF upper(tableName) \in DOMAIN information_schema
    THEN information_schema[upper(tableName)]
    ELSE <<>>

get_integrations_names == {lower(x) : x \in integration_names \ {"files"}}

get_projects_names == {lower(x) : x \in projects}


\* tables an integration that can be reached lists
IntegrationTables == {"tasks"}

\* the TABLE_SCHEMA = <constant> conjunct _get_tables looks for
IsTableSchemaEq(arg) ==
    /\ arg.type = "BinaryOperation"
    /\ arg.op = "="
    /\ arg.args[1].type = "Identifier"
    /\ upper(Last(arg.args[1].parts)) = "TABLE_SCHEMA"
    /\ arg.args[2].type = "Constant"

\* target_table of _get_tables: the constant of the first such conjunct of
\* a top-level AND, else None
target_table(query) ==
    IF /\ query.type = "Select"
       /\ query.where.type = "BinaryOperation"
       /\ query.where.op = "and"
       /\ \E i \in 1..Len(query.where.args) : IsTableSchemaEq(query.where.args[i])
    THEN LET i == CHOOSE j \in 1..Len(query.where.args) :
                    /\ IsTableSchemaEq(query.where.args[j])
                    /\ \A k \in 1..(j - 1) : ~IsTableSchemaEq(query.where.args[k])
         IN query.where.args[i].args[2].value
    ELSE NONE

\* the virtual tables listed when the target is their schema
SystemViewOfSchema(target, name) == target = NONE \/ target = "information_schema"

\* the comparison _get_tables makes for the virtual tables: the target
\* against the table's own name
SystemViewKept(target, name) == target = NONE \/ target = name

_get_tables(query) ==
    LET target == target_table(query) IN
    [err |-> NONE,
     df |->
       {TablesRow("information_schema", name, "SYSTEM VIEW") :
           name \in {n \in DOMAIN information_schema : SystemViewKept(target, n)}}
       \cup {TablesRow(ds_name, x, "BASE TABLE") :
               ds_name \in {d \in persis_datanodes : target = NONE \/ target = d},
               x \in FilesTables}
       \cup {TablesRow(i.ds_name, x, "BASE TABLE") :
               i \in {[ds_name |-> lower(j.name)] :
                        j \in {k \in integrations :
                                 /\ k.name # "files"
                                 /\ k.listable
                                 /\ (target = NONE \/ target = lower(k.name))}},
               x \in IntegrationTables}
       \cup UNION {
              {TablesRow(project_name, row.name,
                         CASE row.type = "table" -> "BASE TABLE"
                           [] row.type = "model" -> "MODEL"
                           [] row.type = "view" -> "VIEW") :
                  row \in project_get_tables((get(project_name)).name)} :
              project_name \in {n \in get_projects_names : target = NONE \/ target = n}}]

\* the project = <constant> pushdown of the controller-backed producers:
\* only a WHERE that is a single equality is inspected
project_name_of(query) ==
    IF /\ query.type = "Select"
       /\ query.where.type = "BinaryOperation"
       /\ query.where.op = "="
       /\ query.where.args[1].parts = <<"project">>
       /\ query.where.args[2].type = "Constant"
    THEN query.where.args[2].value
    ELSE NONE

\* <Controller>.get_list(project_name): entities of a kind, of a project or all
controller_list(kind, project_name) ==
    {e \in entities : e.kind = kind /\ (project_name = NONE \/ e.project = project_name)}

_get_jobs(query) ==
    [err |-> NONE,
     df |-> {<<e.name, e.project, NONE, NONE, NONE, NONE, NONE, NONE>> :
               e \in controller_list("job", project_name_of(query))}]

_get_jobs_history(query) ==
    [err |-> NONE,
     df |-> {<<e.name, e.project, NONE, NONE, NONE, NONE>> :
               e \in controller_list("job_history", project_name_of(query))}]

_get_triggers(query) ==
    [err |-> NONE,
     df |-> {<<e.name, e.project, NONE, NONE, NONE, NONE>> :
               e \in controller_list("trigger", project_name_of(query))}]

_get_chatbots(query) ==
    [err |-> NONE,
     df |-> {<<e.name, e.project, NONE, NONE, NONE, NONE, NONE>> :
               e \in controller_list("chatbot", project_name_of(query))}]

\* the project is resolved to an id first, then its knowledge bases listed
_get_knowledge_bases(query) ==
    LET project_name == project_name_of(query)
        found == ProjectController_get(project_name) IN
    IF found = {}
    THEN [err |-> "ValueError", df |-> {}]
    ELSE [err |-> NONE,
          df |-> {<<e.name, project_name, NONE, NONE>> :
                    e \in {x \in entities : x.kind = "kb" /\ x.project \in found}}]

_get_skills(query) ==
    LET project_name == project_name_of(query) IN
    [err |-> NONE,
     df |-> {<<e.name, project_name, NONE, NONE>> :
               e \in controller_list("skill", project_name)}]

_get_agents(query) ==
    LET project_name == project_name_of(query) IN
    [err |-> NONE,
     df |-> {<<e.name, project_name, NONE, NONE, NONE>> :
               e \in controller_list("agent", project_name)}]

_get_databases(query) ==
    [err |-> NONE,
     df |-> {<<x.name, x.type, x.engine, NONE>> : x \in get_list}]

_get_schemata(query) ==
    [err |-> NONE,
     df |-> {<<"def", x.name, "utf8mb4", "utf8mb4_0900_ai_ci", NONE>> : x \in get_list}]

_get_ml_engines(query) ==
    [err |-> NONE,
     df |-> {<<i.name, i.engine, NONE>> : i \in {j \in integrations : j.type = "ml"}}]

\* IntegrationController.get_handlers_import_status()
handlers_import_status ==
    {[name |-> "postgres", type |-> "data", success |-> TRUE,
      connection_args |-> [declared |-> TRUE, schema |-> ("host" :> "str")]],
     [name |-> "lightwood", type |-> "ml", success |-> TRUE,
      connection_args |-> [declared |-> FALSE, schema |-> <<>>]],
     [name |-> "aqicn", type |-> "data", success |-> FALSE,
      connection_args |-> [declared |-> FALSE, schema |-> <<>>]],
     [name |-> "chromadb", type |-> "data", success |-> TRUE,
      connection_args |-> [declared |-> TRUE, schema |-> ("persist_directory" :> "str")]],
     [name |-> "byom", type |-> "ml", success |-> TRUE,
      connection_args |-> [declared |-> TRUE,
                          schema |-> ("code" :> "path" @@ "modules" :> "path")]]}

_get_handlers(query) ==
    [err |-> NONE,
     df |-> {<<h.name, h.type, NONE, NONE, NONE, NONE, h.success, NONE>> :
               h \in handlers_import_status}]

\* the MODELS row of a Predictor record
ModelsRow(p, project_name) ==
    <<p.name, "lightwood", project_name, p.version, p.status, NONE, NONE,
      "up_to_date", NONE, NONE, NONE, NONE, NONE, NONE, NONE, NONE, NONE, NONE>>

\* _get_models without the check of the active flag
_get_models_every_version(query) ==
    [err |-> NONE,
     df |-> UNION {
              {ModelsRow(row, project_name) :
                  row \in get_models((get(project_name)).name, FALSE)} :
              project_name \in get_projects_names}]

_get_models(query) ==
    [err |-> NONE,
     df |-> UNION {
              {ModelsRow(row, project_name) :
                  row \in {r \in get_models((get(project_name)).name, TRUE) : r.active}} :
              project_name \in get_projects_names}]

\* the MODELS_VERSIONS row of a Predictor record
VersionsRow(p, project_name) ==
    <<p.name, "lightwood", project_name, p.active, p.version, p.status, NONE,
      NONE, "up_to_date", NONE, NONE, NONE, NONE, NONE, NONE, NONE>>

_get_models_versions(query) ==
    [err |-> NONE,
     df |-> UNION {
              {VersionsRow(row, project_name) :
                  row \in get_models((get(project_name)).name, FALSE)} :
              project_name \in get_projects_names}]

\* row_templates["text"] filled in for one column
ColumnsRow(schema, table_name, column_name, i) ==
    <<"def", schema, table_name, column_name, i, NONE, "YES", "varchar", 1024,
      3072, NONE, NONE, NONE, "utf8", "utf8_bin", "varchar(1024)", NONE, NONE,
      "select", NONE, NONE>>

\* columns of a table of the 'files' database
FilesColumns == <<"a", "b">>

_get_columns(query) ==
    LET mindsdb_dn == get("MINDSDB")
        files_dn == get("FILES") IN
    IF mindsdb_dn.type = NONE \/ files_dn.type = NONE
    THEN [err |-> "AttributeError", df |-> {}]
    ELSE
    [err |-> NONE,
     df |->
       UNION {{ColumnsRow("information_schema", table_name,
                          information_schema[table_name][i], i - 1) :
                  i \in 1..Len(information_schema[table_name])} :
              table_name \in DOMAIN information_schema}
       \cup UNION {{ColumnsRow("mindsdb", row.name,
                          project_get_columns(mindsdb_dn.name, row.name)[i], i - 1) :
                  i \in 1..Len(project_get_columns(mindsdb_dn.name, row.name))} :
              row \in project_get_tables(mindsdb_dn.name)}
       \cup UNION {{ColumnsRow("files", table_name, FilesColumns[i], i - 1) :
                  i \in 1..Len(FilesColumns)} :
              table_name \in FilesTables}]

_get_engines(query) ==
    [err |-> NONE,
     df |-> {<<"InnoDB", "DEFAULT",
               "Supports transactions, row-level locking, and foreign keys",
               "YES", "YES", "YES">>}]

_get_charsets(query) ==
    [err |-> NONE,
     df |-> {<<"utf8", "UTF-8 Unicode", "utf8_general_ci", 3>>,
             <<"latin1", "cp1252 West European", "latin1_swedish_ci", 1>>,
             <<"utf8mb4", "UTF-8 Unicode", "utf8mb4_general_ci", 4>>}]

_get_collations(query) ==
    [err |-> NONE,
     df |-> {<<"utf8_general_ci", "utf8", 33, "Yes", "Yes", 1, "PAD SPACE">>,
             <<"latin1_swedish_ci", "latin1", 8, "Yes", "Yes", 1, "PAD SPACE">>}]

_get_empty_table(table_name, query) == [err |-> NONE, df |-> {}]


\* the producers __init__ registers by name
DedicatedFuncs ==
    "TABLES" :> "_get_tables" @@
    "COLUMNS" :> "_get_columns" @@
    "SCHEMATA" :> "_get_schemata" @@
    "ENGINES" :> "_get_engines" @@
    "CHARACTER_SETS" :> "_get_charsets" @@
    "COLLATIONS" :> "_get_collations" @@
    "MODELS" :> "_get_models" @@
    "MODELS_VERSIONS" :> "_get_models_versions" @@
    "DATABASES" :> "_get_databases" @@
    "ML_ENGINES" :> "_get_ml_engines" @@
    "HANDLERS" :> "_get_handlers" @@
    "JOBS" :> "_get_jobs" @@
    "JOBS_HISTORY" :> "_get_jobs_history" @@
    "MDB_TRIGGERS" :> "_get_triggers" @@
    "CHATBOTS" :> "_get_chatbots" @@
    "KNOWLEDGE_BASES" :> "_get_knowledge_bases" @@
    "SKILLS" :> "_get_skills" @@
    "AGENTS" :> "_get_agents"

\* the producers __init__ names, without the fill-in for the other tables
get_dataframe_funcs_dedicated == DedicatedFuncs

\* self.get_dataframe_funcs after __init__: every registry table without a
\* dedicated producer gets _get_empty_table
get_dataframe_funcs ==
    [t \in (DOMAIN DedicatedFuncs) \cup (DOMAIN information_schema) |->
        IF t \in DOMAIN DedicatedFuncs THEN DedicatedFuncs[t] ELSE "_get_empty_table"]

\* pd.DataFrame(data, columns=columns), the last step of every producer:
\* it raises when a row does not hold one value per column
DataFrame(r, columns) ==
    IF r.err = NONE /\ \E row \in r.df : Len(row) # Len(columns)
    THEN [err |-> "ValueError", df |-> {}]
    ELSE r

\* self.get_dataframe_funcs[table_name](query=query)
dataframe(table_name, query) ==
    DataFrame(
       CASE get_dataframe_funcs[table_name] = "_get_tables" -> _get_tables(query)
         [] get_dataframe_funcs[table_name] = "_get_columns" -> _get_columns(query)
         [] get_dataframe_funcs[table_name] = "_get_schemata" -> _get_schemata(query)
         [] get_dataframe_funcs[table_name] = "_get_engines" -> _get_engines(query)
         [] get_dataframe_funcs[table_name] = "_get_charsets" -> _get_charsets(query)
         [] get_dataframe_funcs[table_name] = "_get_collations" -> _get_collations(query)
         [] get_dataframe_funcs[table_name] = "_get_models" -> _get_models(query)
         [] get_dataframe_funcs[table_name] = "_get_models_versions" -> _get_models_versions(query)
         [] get_dataframe_funcs[table_name] = "_get_databases" -> _get_databases(query)
         [] get_dataframe_funcs[table_name] = "_get_ml_engines" -> _get_ml_engines(query)
         [] get_dataframe_funcs[table_name] = "_get_handlers" -> _get_handlers(query)
         [] get_dataframe_funcs[table_name] = "_get_jobs" -> _get_jobs(query)
         [] get_dataframe_funcs[table_name] = "_get_jobs_history" -> _get_jobs_history(query)
         [] get_dataframe_funcs[table_name] = "_get_triggers" -> _get_triggers(query)
         [] get_dataframe_funcs[table_name] = "_get_chatbots" -> _get_chatbots(query)
         [] get_dataframe_funcs[table_name] = "_get_knowledge_bases" -> _get_knowledge_bases(query)
         [] get_dataframe_funcs[table_name] = "_get_skills" -> _get_skills(query)
         [] get_dataframe_funcs[table_name] = "_get_agents" -> _get_agents(query)
         [] get_dataframe_funcs[table_name] = "_get_empty_table" ->
               _get_empty_table(table_name, query),
       information_schema[table_name])

\* get_all_tables(query): the tables a SELECT reads
get_all_tables(query) ==
    IF query.from_table.type = "Identifier"
    THEN <<Last(query.from_table.parts)>>
    ELSE <<Last(query.from_table.left.parts), Last(query.from_table.right.parts)>>

\* the last steps of InformationSchemaDataNode.query: query_df on the frame
\* the producer returned (its exception passes through)
frame_query(table_name, r, query) ==
    IF r.err # NONE
    THEN [err |-> r.err, data |-> {}]
    ELSE [err |-> NONE, data |-> query_df(table_name, r.df, query)]

\* InformationSchemaDataNode.query
information_schema_query(query) ==
    LET query_tables == get_all_tables(query) IN
    IF Len(query_tables) # 1
    THEN [err |-> "ErBadTableError", data |-> {}]
    ELSE LET table_name == upper(query_tables[1]) IN
         IF table_name \notin DOMAIN get_dataframe_funcs
         THEN [err |-> "ErNotSupportedYet", data |-> {}]
         ELSE frame_query(table_name, dataframe(table_name, query), query)

(***************************************************************************)
(* ProjectDataNode                                                         *)
(***************************************************************************)
\* ProjectDataNode.query passing the statement on without the project filter
ProjectDataNode_query_unscoped(project, query) ==
    LET query_table == IF query.from_table.parts[1] = "predictors"
                       THEN "models" ELSE query.from_table.parts[1] IN
    IF query_table \in ProjectTables
    THEN information_schema_query([query EXCEPT !.from_table.parts[1] = query_table])
    ELSE [err |-> "EntityNotExistsError", data |-> {}]

\* ProjectDataNode.query on a catalog-backed table: the statement with
\* project = <this project> AND-ed to its WHERE goes to the catalog
ProjectDataNode_query(project, query) ==
    LET query_table == IF query.from_table.parts[1] = "predictors"
                       THEN "models" ELSE query.from_table.parts[1] IN
    IF query_table \in ProjectTables
    THEN LET project_filter ==
                BinaryOperation("=", <<Identifier(<<"project">>), Constant(project)>>)
             new_query ==
                [query EXCEPT
                   !.from_table.parts[1] = query_table,
                   !.where = IF query.where.type = "NoneType"
                             THEN project_filter
                             ELSE BinaryOperation("and", <<query.where, project_filter>>)]
         IN information_schema_query(new_query)
    ELSE [err |-> "EntityNotExistsError", data |-> {}]

\* <datanode>.query(query) for the node datahub.get returned
datanode_query(dn, query) ==
    CASE dn.type = "project" -> ProjectDataNode_query(dn.name, query)
      [] dn.type = "INFORMATION_SCHEMA" -> information_schema_query(query)
      [] dn.type = "integration" -> [err |-> "Exception", data |-> {}]


(***************************************************************************)
(* ExecuteCommands: model statements                                       *)
(***************************************************************************)
\* resolve_model_identifier: (database, model, version); version 0 is None
resolve_model_identifier(identifier) ==
    [database |-> identifier.parts[1], model |-> identifier.parts[2], version |-> 0]

\* _get_model_info(identifier): the Predictor records the identifier names
\* (a one-part name is looked up in session.database)
_get_model_info(identifier) ==
    LET parts == IF Len(identifier.parts) = 1
                 THEN <<database, identifier.parts[1]>> ELSE identifier.parts
        r == resolve_model_identifier(Identifier(parts))
    IN [parts |-> parts,
        model_record |-> get_model_record(r.model, r.database, r.version)]

\* statement.using left as written
repack_using_verbatim(using) == using

\* statement.using repacked with lower-case keys
repack_using(using) ==
    [k \in {lower(x) : x \in DOMAIN using} |->
        using[CHOOSE x \in DOMAIN using : lower(x) = k]]

\* get_predictor_integration(model_record): the ML integration the model
\* was trained with (the default engine, lightwood), {} when it is gone
get_predictor_integration(model_record) ==
    {i \in integrations : i.name = "lightwood"}

\* integration_controller.get_handler(name): {} stands for its exception
get_handler(name) == {i.name : i \in {j \in integrations : j.name = name}}

\* the session outside hosted mode: config cloud unset, no model training
NotHosted == [cloud |-> FALSE, user_class |-> 0, training_times |-> {}]

\* _sync_predictor_check that admits every statement
_sync_predictor_check_off(env) == FALSE

\* _sync_predictor_check: TRUE when it raises.  env.training_times holds
\* now - training_start_at, in minutes, of the models in status training or
\* generating that have a start and no stop time
_sync_predictor_check(env) ==
    /\ env.cloud /\ env.user_class = 0
    /\ env.training_times # {}
    /\ \E shortest_training \in env.training_times :
          /\ \A t \in env.training_times : shortest_training <= t
          /\ shortest_training < 60

\* the end of answer_retrain_predictor and answer_finetune_predictor: the
\* handler is found, the guard check is run, the model controller called
train_with(ml_handler, env, phase_name, r) ==
    IF ml_handler = {}
    THEN [answer |-> Raise("Exception", "ML engine does not exist"),
          predictors |-> predictors, calls |-> <<>>]
    ELSE IF _sync_predictor_check(env)
    THEN [answer |-> Raise("SqlApiException", "Can't start process"),
          predictors |-> predictors,
          calls |-> <<[op |-> "_sync_predictor_check", env |-> env]>>]
    ELSE [answer |-> IF r.err # NONE THEN Raise(r.err, r.msg) ELSE AnswerTable({}),
          predictors |-> r.predictors,
          calls |-> <<[op |-> "_sync_predictor_check", env |-> env],
                      [op |-> phase_name,
                       ml_handler |-> CHOOSE h \in ml_handler : TRUE]>>]

\* answer_retrain_predictor.  The models here are trained from no data
\* integration (data_integration_ref is None), so its first check passes
answer_retrain_predictor(statement, env) ==
    LET info == _get_model_info(statement.name) IN
    IF info.model_record = {}
    THEN [answer |-> Raise("PredictorRecordNotFound", "not found"),
          predictors |-> predictors, calls |-> <<>>]
    ELSE LET using == repack_using(statement.using)
             set_active == ~("active" \in DOMAIN using /\ using["active"] = 0)
             ml_handler == IF "engine" \in DOMAIN using
                           THEN get_handler(using["engine"])
                           ELSE IF get_predictor_integration(info.model_record) = {}
                           THEN {}
                           ELSE get_handler(
                                   (CHOOSE i \in get_predictor_integration(info.model_record) :
                                       TRUE).name)
         IN train_with(ml_handler, env, "retrain_model",
                       retrain_model(info.parts[1], info.parts[2], set_active))

\* ModelController.finetune_model: as retrain_model, one more version
finetune_model(project, name, set_active) == retrain_model(project, name, set_active)

\* answer_finetune_predictor
answer_finetune_predictor(statement, env) ==
    LET info == _get_model_info(statement.name) IN
    IF info.model_record = {}
    THEN [answer |-> Raise("PredictorRecordNotFound", "not found"),
          predictors |-> predictors, calls |-> <<>>]
    ELSE LET using == repack_using(statement.using)
             set_active == ~("active" \in DOMAIN using /\ using["active"] = 0)
             ml_handler == IF get_predictor_integration(info.model_record) = {}
                           THEN {}
                           ELSE get_handler(
                                   (CHOOSE i \in get_predictor_integration(info.model_record) :
                                       TRUE).name)
         IN train_with(ml_handler, env, "finetune_model",
                       finetune_model(info.parts[1], info.parts[2], set_active))

\* answer_create_predictor
answer_create_predictor(statement) ==
    LET integration_name == IF Len(statement.name.parts) > 1
                            THEN statement.name.parts[1] ELSE database
        r == create_model(lower(integration_name), Last(statement.name.parts))
    IN IF r.err # NONE
       THEN [answer |-> Raise(r.err, r.msg), predictors |-> predictors]
       ELSE [answer |-> AnswerTable({}), predictors |-> r.predictors]

\* the DropPredictor branch dropping in session.database whatever the name says
answer_drop_predictor_session(statement) ==
    LET r == drop_model(database, Last(statement.name.parts))
    IN IF r.err # NONE /\ ~statement.if_exists
       THEN [answer |-> Raise(r.err, r.msg), predictors |-> predictors]
       ELSE [answer |-> AnswerOK, predictors |-> r.predictors]

\* the DropPredictor branch of execute_command
answer_drop_predictor(statement) ==
    LET database_name == IF Len(statement.name.parts) > 1
                         THEN lower(statement.name.parts[1]) ELSE database
        model_name == Last(statement.name.parts)
        r == drop_model(database_name, model_name)
    IN IF r.err # NONE /\ ~statement.if_exists
       THEN [answer |-> Raise(r.err, r.msg), predictors |-> predictors]
       ELSE [answer |-> AnswerOK, predictors |-> r.predictors]

\* the scoped SELECT version, name, project FROM models_versions WHERE ...
\* that update and delete of models_versions run first
versions_query(statement) ==
    Select(<<Identifier(<<"version">>), Identifier(<<"name">>), Identifier(<<"project">>)>>,
           Identifier(<<"models_versions">>), statement.where)

\* update_columns with lower-case keys and constants unwrapped
update_kwargs(update_columns) ==
    [k \in {lower(x) : x \in DOMAIN update_columns} |->
        (update_columns[CHOOSE x \in DOMAIN update_columns : lower(x) = k]).value]

\* the answer of a model controller call
controller_answer(r) ==
    IF r.err # NONE
    THEN [answer |-> Raise(r.err, r.msg), predictors |-> predictors]
    ELSE [answer |-> AnswerOK, predictors |-> r.predictors]

\* answer_update_model_version once the versions are selected
update_selected(models, statement) ==
    IF models.err # NONE
    THEN [answer |-> Raise(models.err, NONE), predictors |-> predictors]
    ELSE controller_answer(
            update_model_version(models.data, update_kwargs(statement.update_columns)))

\* answer_update_model_version
answer_update_model_version(statement) ==
    LET project_name == IF Len(statement.table.parts) > 1
                        THEN statement.table.parts[1] ELSE database
        project_datanode == get(project_name)
    IN IF project_datanode.type = NONE
       THEN [answer |-> Raise("Exception", "Project not found"), predictors |-> predictors]
       ELSE update_selected(
               datanode_query(project_datanode, versions_query(statement)), statement)

\* answer_delete_model_version once the versions are selected
delete_selected(models) ==
    IF models.err # NONE
    THEN [answer |-> Raise(models.err, NONE), predictors |-> predictors]
    ELSE controller_answer(delete_model_version(models.data))

\* answer_delete_model_version
answer_delete_model_version(statement) ==
    LET project_name == IF Len(statement.table.parts) > 1
                        THEN statement.table.parts[1] ELSE database
        project_datanode == get(project_name)
    IN IF project_datanode.type = NONE
       THEN [answer |-> Raise("Exception", "Project not found"), predictors |-> predictors]
       ELSE delete_selected(datanode_query(project_datanode, versions_query(statement)))

\* USE that switches to whatever name it is given
change_default_db_unchecked(db_name) == [answer |-> AnswerOK, database |-> db_name]

\* change_default_db
change_default_db(db_name) ==
    IF db_name # "null"
    THEN IF exists(db_name)
         THEN [answer |-> AnswerOK, database |-> db_name]
         ELSE [answer |-> Raise("ErBadDbError", "does not exists"), database |-> database]
    ELSE [answer |-> AnswerOK, database |-> database]


(***************************************************************************)
(* ExecuteCommands.execute_command: the dispatch chain                     *)
(***************************************************************************)
\* the Show branch: the routine a sub-category reaches.  sql_lower is the
\* set of the searched-for fragments the statement's text contains.
show_command(sql_category, sql_lower) ==
    IF sql_category \in {"predictors", "models"} THEN "show models"
    ELSE IF sql_category = "ml_engines" THEN "show ml_engines"
    ELSE IF sql_category = "handlers" THEN "show handlers"
    ELSE IF sql_category = "plugins" THEN "show plugins"
    ELSE IF sql_category \in {"databases", "schemas"} THEN "show databases"
    ELSE IF sql_category \in {"tables", "full tables"} THEN "show tables"
    ELSE IF sql_category \in {"variables", "session variables", "session status",
                              "global variables"} THEN "show variables"
    ELSE IF sql_category = "search_path" THEN "show search_path"
    ELSE IF "show status like 'ssl_version'" \in sql_lower THEN "show ssl_version"
    ELSE IF sql_category \in {"function status", "procedure status"}
         THEN "answer_function_status"
    ELSE IF sql_category \in {"index", "keys", "indexes"} THEN "show index"
    ELSE IF "show create table" \in sql_lower THEN "answer_show_create_table"
    ELSE IF sql_category \in {"character set", "charset"} THEN "show charset"
    ELSE IF sql_category = "warnings" THEN "answer_show_warnings"
    ELSE IF sql_category = "engines" THEN "show engines"
    ELSE IF sql_category = "collation" THEN "show collation"
    ELSE IF sql_category = "table status" THEN "answer_show_table_status"
    ELSE IF sql_category = "columns" THEN "answer_show_columns"
    ELSE IF sql_category \in {"knowledge_bases", "knowledge bases"}
         THEN "show knowledge_bases"
    ELSE "ErNotSupportedYet"

\* the routine the Delete branch reaches
delete_command(statement) ==
    IF lower(Last(statement.table.parts)) = "models_versions"
    THEN "answer_delete_model_version"
    ELSE IF statement.is_knowledge_base THEN "kb_controller.execute_query"
    ELSE IF database # "mindsdb" /\ statement.table.parts[1] # "mindsdb"
    THEN "ErBadTableError"
    ELSE "SQLQuery"

\* the condition of the Alter branch as Python groups it:
\* (type == Alter and "disable keys" in sql) or ("enable keys" in sql)
alter_keys(statement, sql_lower) ==
    \/ (statement.kind = "Alter" /\ "disable keys" \in sql_lower)
    \/ "enable keys" \in sql_lower

\* execute_command: the routine that handles the statement
execute_command(statement, sql_lower) ==
    LET kind == statement.kind IN
    IF kind = "CreateDatabase" THEN "answer_create_database"
    ELSE IF kind = "CreateMLEngine" THEN "answer_create_ml_engine"
    ELSE IF kind = "DropMLEngine" THEN "answer_drop_ml_engine"
    ELSE IF kind = "DropPredictor" THEN "drop_model"
    ELSE IF kind = "DropTables" THEN "answer_drop_tables"
    ELSE IF kind \in {"DropDatasource", "DropDatabase"} THEN "answer_drop_database"
    ELSE IF kind = "Describe" THEN "answer_describe_predictor"
    ELSE IF kind = "RetrainPredictor" THEN "answer_retrain_predictor"
    ELSE IF kind = "FinetunePredictor" THEN "answer_finetune_predictor"
    ELSE IF kind = "Show" THEN show_command(lower(statement.category), sql_lower)
    ELSE IF kind \in {"StartTransaction", "CommitTransaction", "RollbackTransaction"}
         THEN "OK"
    ELSE IF kind = "Set" THEN "set"
    ELSE IF kind = "Use" THEN "change_default_db"
    ELSE IF kind \in {"CreatePredictor", "CreateAnomalyDetectionModel"}
         THEN "answer_create_predictor"
    ELSE IF kind = "CreateView" THEN "answer_create_view"
    ELSE IF kind = "DropView" THEN "answer_drop_view"
    ELSE IF kind = "Delete" THEN delete_command(statement)
    ELSE IF kind = "Insert"
         THEN (IF statement.is_knowledge_base
               THEN "kb_controller.execute_query" ELSE "SQLQuery")
    ELSE IF kind = "Update"
         THEN (IF /\ statement.from_select.type = "NoneType"
                  /\ lower(Last(statement.table.parts)) = "models_versions"
               THEN "answer_update_model_version" ELSE "SQLQuery")
    ELSE IF alter_keys(statement, sql_lower) THEN "OK"
    ELSE IF kind = "Select"
         THEN (IF statement.from_table.type = "NoneType" THEN "answer_single_row_select"
               ELSE IF statement.is_knowledge_base THEN "kb_controller.execute_query"
               ELSE "answer_select")
    ELSE IF kind = "Union" THEN "answer_select"
    ELSE IF kind = "Explain" THEN "answer_show_columns"
    ELSE IF kind = "CreateTable" THEN "answer_apply_predictor"
    ELSE IF kind = "CreateJob" THEN "answer_create_job"
    ELSE IF kind = "DropJob" THEN "answer_drop_job"
    ELSE IF kind = "CreateTrigger" THEN "answer_create_trigger"
    ELSE IF kind = "DropTrigger" THEN "answer_drop_trigger"
    ELSE IF kind = "CreateChatBot" THEN "answer_create_chatbot"
    ELSE IF kind = "UpdateChatBot" THEN "answer_update_chatbot"
    ELSE IF kind = "DropChatBot" THEN "answer_drop_chatbot"
    ELSE IF kind = "CreateKnowledgeBase" THEN "answer_create_kb"
    ELSE IF kind = "DropKnowledgeBase" THEN "anwser_drop_kb"
    ELSE IF kind = "CreateSkill" THEN "answer_create_skill"
    ELSE IF kind = "DropSkill" THEN "answer_drop_skill"
    ELSE IF kind = "UpdateSkill" THEN "answer_update_skill"
    ELSE IF kind = "CreateAgent" THEN "answer_create_agent"
    ELSE IF kind = "DropAgent" THEN "answer_drop_agent"
    ELSE IF kind = "UpdateAgent" THEN "answer_update_agent"
    ELSE IF kind = "Evaluate" THEN "answer_evaluate_metric"
    ELSE "ErNotSupportedYet"


(***************************************************************************)
(* Statements the sessions issue                                           *)
(***************************************************************************)
\* model identifiers: m (of the session's database), proj.m
ModelIdentifiers ==
    {Identifier(<<n>>) : n \in ModelNames}
    \cup {Identifier(<<"proj", n>>) : n \in ModelNames}

\* models_versions (of the session's database), proj.models_versions
VersionsTables ==
    {Identifier(<<"models_versions">>), Identifier(<<"proj", "models_versions">>)}

\* WHERE clauses over models_versions
VersionsWhere(form, v, n) ==
    CASE form = "none" -> NoWhere
      [] form = "version" ->
            BinaryOperation("=", <<Identifier(<<"version">>), Constant(v)>>)
      [] form = "version and name" ->
            BinaryOperation("and",
               <<BinaryOperation("=", <<Identifier(<<"version">>), Constant(v)>>),
                 BinaryOperation("=", <<Identifier(<<"name">>), Constant(n)>>)>>)

WhereForms == {"none", "version", "version and name"}

\* the version numbers a WHERE of the given form is written with
WhereVersions(form) == IF form = "none" THEN {1} ELSE 1..MaxVersion

UsingClauses == {<<>>, [active |-> 0], [ACTIVE |-> 0]}

UpdateColumns == {[active |-> Constant(1)], [ACTIVE |-> Constant(1)],
                  [active |-> Constant(0)]}

CreatePredictorStmt(name) == [kind |-> "CreatePredictor", name |-> name]

RetrainPredictorStmt(name, using) ==
    [kind |-> "RetrainPredictor", name |-> name, using |-> using]

UpdateStmt(table, form, v, n, update_columns) ==
    [kind |-> "Update", table |-> table, where |-> VersionsWhere(form, v, n),
     update_columns |-> update_columns, from_select |-> NoWhere]

DeleteStmt(table, form, v, n) ==
    [kind |-> "Delete", table |-> table, where |-> VersionsWhere(form, v, n),
     is_knowledge_base |-> FALSE]

DropPredictorStmt(name, if_exists) ==
    [kind |-> "DropPredictor", name |-> name, if_exists |-> if_exists]

UseStmt(db) == [kind |-> "Use", value |-> Identifier(<<db>>)]

\* what the session keeps of the statement it answered last: its class and
\* the parts of the identifier it names
StatementHead(statement) ==
    LET target == IF "name" \in DOMAIN statement THEN statement.name.parts
                  ELSE IF "table" \in DOMAIN statement THEN statement.table.parts
                  ELSE IF "value" \in DOMAIN statement THEN statement.value.parts
                  ELSE <<>>
    IN IF "using" \in DOMAIN statement
       THEN [kind |-> statement.kind, target |-> target, using |-> statement.using]
       ELSE [kind |-> statement.kind, target |-> target]

(***************************************************************************)
(* Initial state                                                           *)
(***************************************************************************)
Init ==
    /\ projects = {"mindsdb"}
    /\ integrations = {[name |-> "lightwood", engine |-> "lightwood",
                        type |-> "ml", listable |-> FALSE]}
    /\ predictors = {}
    /\ entities = {}
    /\ database = "mindsdb"
    /\ stmt = [kind |-> NONE, target |-> <<>>]
    /\ routine = NONE
    /\ answer = AnswerOK
    /\ views = {}
    /\ files = {"f"}
    /\ calls = <<>>
    /\ sessions = [s \in Sessions |-> [pc |-> "idle", checked_at |-> 0]]
    /\ clock = 0
    /\ training_start_at = <<>>
    /\ engine_storage = [files |-> <<>>, versions |-> {}, venv |-> FALSE]
    /\ model_wrapper = {}
    /\ byom_type = "UNSAFE"
    /\ finetune_records = <<>>

(***************************************************************************)
(* Actions: one per statement handler                                      *)
(***************************************************************************)
\* ProjectController().add(name)
project_add(name) ==
    IF exists(name)
    THEN [err |-> "EntityExistsError", projects |-> projects]
    ELSE [err |-> NONE, projects |-> projects \cup {name}]

\* the values statements give connection arguments: a plain value, a path
\* string of a file that is or is not there, {'path': ...} of either,
\* {'url': ...} that can or cannot be downloaded, a dict with neither key,
\* a number
ArgValues ==
    {"text", "file", "nofile", "dict path file", "dict path nofile",
     "dict url", "dict bad url", "dict other", "int"}

\* the PATH branch of _create_integration on one argument value:
\* the error or the path it is replaced with
resolve_path(arg_value) ==
    CASE arg_value = "int" -> [err |-> "Unknown type of arg", value |-> arg_value]
      [] arg_value \in {"text", "nofile", "dict path nofile"} ->
            [err |-> "File not found", value |-> arg_value]
      [] arg_value \in {"file", "dict path file"} -> [err |-> NONE, value |-> "file"]
      [] arg_value = "dict url" -> [err |-> NONE, value |-> "downloaded file"]
      [] arg_value = "dict bad url" -> [err |-> "download failed", value |-> arg_value]
      [] arg_value = "dict other" ->
            [err |-> "must be path or url to the file", value |-> arg_value]

\* connection arguments taken as they are written
validate_connection_args_any(accept_connection_args, connection_args) ==
    [err |-> NONE, args |-> connection_args]

\* the loop of _create_integration over connection_args: the first error
\* met (as_service is skipped), and the arguments with the paths resolved
validate_connection_args(accept_connection_args, connection_args) ==
    IF ~accept_connection_args.declared
    THEN [err |-> NONE, args |-> connection_args]
    ELSE LET checked == DOMAIN connection_args \ {"as_service"}
             is_path(k) == accept_connection_args.schema[k] = "path"
         IN IF \E k \in checked : k \notin DOMAIN accept_connection_args.schema
            THEN [err |-> "Unknown connection argument", args |-> connection_args]
            ELSE IF \E k \in checked : is_path(k) /\ (resolve_path(connection_args[k])).err # NONE
            THEN [err |-> "bad path argument", args |-> connection_args]
            ELSE [err |-> NONE,
                  args |-> [k \in DOMAIN connection_args |->
                              IF k \in checked /\ is_path(k)
                              THEN (resolve_path(connection_args[k])).value
                              ELSE connection_args[k]]]

\* _create_integration: the handler is looked up, the arguments validated
\* and the connection checked before the integration is added; check is
\* what check_connection of the temporary handler does
_create_integration(name, engine, connection_args, check) ==
    LET meta == {h \in handlers_import_status : h.name = engine}
        handler_meta == CHOOSE h \in meta : TRUE
        valid == validate_connection_args(handler_meta.connection_args,
                                          connection_args.args)
        status == IF meta = {} THEN "KeyError"
                  ELSE IF ~handler_meta.success THEN "Handler can not be used"
                  ELSE IF valid.err # NONE THEN valid.err
                  ELSE check
    IN IF status # "ok"
       THEN [err |-> "SqlApiException", msg |-> "Can't connect to db",
             integrations |-> integrations,
             calls |-> IF status = check
                       THEN <<[op |-> "check_connection", name |-> name,
                               args |-> valid.args, status |-> check]>>
                       ELSE <<>>]
       ELSE IF name \in integration_names
       THEN [err |-> "SqlApiException", msg |-> "already exists",
             integrations |-> integrations,
             calls |-> <<[op |-> "check_connection", name |-> name,
                         args |-> valid.args, status |-> check]>>]
       ELSE [err |-> NONE, msg |-> NONE,
             integrations |-> integrations \cup
                {[name |-> name, engine |-> engine, type |-> "data",
                  listable |-> connection_args.listable]},
             calls |-> <<[op |-> "check_connection", name |-> name,
                          args |-> valid.args, status |-> check],
                         [op |-> "integration_controller.add", name |-> name,
                          args |-> valid.args, status |-> NONE]>>]

\* answer_create_database
answer_create_database(statement, check) ==
    IF Len(statement.name.parts) # 1
    THEN [answer |-> Raise("Exception", "Database name should contain only 1 part."),
          projects |-> projects, integrations |-> integrations, calls |-> <<>>]
    ELSE LET database_name == statement.name.parts[1]
             engine == lower(IF statement.engine = NONE THEN "mindsdb" ELSE statement.engine)
         IN IF engine = "mindsdb"
            THEN LET r == project_add(database_name) IN
                 [answer |-> IF r.err # NONE THEN Raise(r.err, NONE) ELSE AnswerOK,
                  projects |-> r.projects, integrations |-> integrations, calls |-> <<>>]
            ELSE LET r == _create_integration(database_name, engine, statement.parameters, check) IN
                 [answer |-> IF r.err # NONE THEN Raise(r.err, r.msg) ELSE AnswerOK,
                  projects |-> projects, integrations |-> r.integrations, calls |-> r.calls]

\* no connection arguments
NoArgs == <<>>

CreateDatabaseAnswer(statement, r) ==
    /\ execute_command(statement, {}) = "answer_create_database"
    /\ routine' = "answer_create_database"
    /\ projects' = r.projects
    /\ integrations' = r.integrations
    /\ answer' = r.answer
    /\ stmt' = [kind |-> statement.kind, target |-> statement.name.parts,
                engine |-> statement.engine, args |-> statement.parameters.args]
    /\ calls' = r.calls
    /\ UNCHANGED <<handler_vars, views, files, predictors, entities, database>>

CreateDatabaseStep(name, engine, args, listable, check) ==
    LET statement == [kind |-> "CreateDatabase", name |-> Identifier(name),
                      engine |-> engine,
                      parameters |-> [args |-> args, listable |-> listable]]
    IN CreateDatabaseAnswer(statement, answer_create_database(statement, check))

\* CREATE DATABASE proj (no engine: a project)
CreateProject == CreateDatabaseStep(<<"proj">>, NONE, NoArgs, FALSE, "ok")

UseStep(statement) ==
    LET r == change_default_db(Last(statement.value.parts))
    IN /\ execute_command(statement, {}) = "change_default_db"
       /\ routine' = "change_default_db"
       /\ database' = r.database
       /\ answer' = r.answer
       /\ stmt' = StatementHead(statement)
       /\ calls' = <<>>
       /\ UNCHANGED <<handler_vars, views, files, projects, integrations, predictors, entities>>

\* a handler that changes the Predictor records only
ModelStep(statement, name, r) ==
    /\ execute_command(statement, {}) = name
    /\ routine' = name
    /\ \A p \in r.predictors : p.version <= MaxVersion
    /\ Cardinality(r.predictors) <= MaxRecords
    /\ predictors' = r.predictors
    /\ answer' = r.answer
    /\ stmt' = StatementHead(statement)
    /\ calls' = IF "calls" \in DOMAIN r THEN r.calls ELSE <<>>
    /\ UNCHANGED <<handler_vars, views, files, projects, integrations, entities, database>>

CreatePredictorStep(statement) ==
    ModelStep(statement, "answer_create_predictor", answer_create_predictor(statement))

CreatePredictor ==
    \E name \in ModelIdentifiers : CreatePredictorStep(CreatePredictorStmt(name))

RetrainPredictorStep(statement) ==
    ModelStep(statement, "answer_retrain_predictor",
              answer_retrain_predictor(statement, NotHosted))

RetrainPredictor ==
    \E name \in ModelIdentifiers, using \in UsingClauses :
      RetrainPredictorStep(RetrainPredictorStmt(name, using))

\* the learn process of version p ends, in success or in error
LearnProcessStep(p, ok) ==
    /\ p \in predictors
    /\ p.status = "training"
    /\ predictors' = learn_process(p, ok)
    /\ stmt' = [kind |-> "learn_process", target |-> <<p.project, p.name>>]
    /\ routine' = "learn_process"
    /\ answer' = AnswerOK
    /\ calls' = <<>>
    /\ UNCHANGED <<handler_vars, views, files, projects, integrations, entities, database>>

LearnProcess ==
    \E p \in predictors, ok \in BOOLEAN : LearnProcessStep(p, ok)

UpdateModelVersionStep(statement) ==
    ModelStep(statement, "answer_update_model_version", answer_update_model_version(statement))

UpdateModelVersion ==
    \E table \in VersionsTables, form \in {"none", "version"},
       n \in ModelNames, update_columns \in UpdateColumns :
      \E v \in WhereVersions(form) :
      UpdateModelVersionStep(UpdateStmt(table, form, v, n, update_columns))

DeleteModelVersionStep(statement) ==
    ModelStep(statement, "answer_delete_model_version", answer_delete_model_version(statement))

DeleteModelVersion ==
    \E table \in VersionsTables, form \in WhereForms, n \in ModelNames :
      \E v \in WhereVersions(form) :
      DeleteModelVersionStep(DeleteStmt(table, form, v, n))

DropPredictorStep(statement) ==
    ModelStep(statement, "drop_model", answer_drop_predictor(statement))

DropPredictor ==
    \E name \in ModelIdentifiers \cup {Identifier(<<"PROJ", "m">>)},
       if_exists \in BOOLEAN :
      DropPredictorStep(DropPredictorStmt(name, if_exists))

\* the model statements of test_version_managing
Next ==
    \/ CreateProject
    \/ CreatePredictor
    \/ RetrainPredictor
    \/ LearnProcess
    \/ UpdateModelVersion
    \/ DeleteModelVersion
    \/ DropPredictor

Spec == Init /\ [][Next]_vars


(***************************************************************************)
(* Model versions: properties of Spec                                      *)
(***************************************************************************)
\* the project a statement's one- or two-part name is resolved in
TargetProject(parts) == IF Len(parts) > 1 THEN parts[1] ELSE database

\* the versions a WHERE of the given form selects in the table's project
SelectedVersions(table, form, v, n) ==
    {p \in predictors :
        /\ p.project = TargetProject(table.parts)
        /\ form # "none" => p.version = v
        /\ form = "version and name" => p.name = n}

\* the version numbers on record of every model
VersionNumbers ==
    [pr \in ProjectNames, n \in ModelNames |->
        {p.version : p \in get_model_records(pr, n)}]

\* C1: after any sequence of CREATE MODEL, RETRAIN (with or without
\* active=0), UPDATE models_versions SET active=1, DELETE FROM models_versions
\* and DROP MODEL statements, every model name that still has at least one
\* version has exactly one version marked active.
C1_ExactlyOneActiveVersion ==
    \A pr \in ProjectNames, n \in ModelNames :
        get_model_records(pr, n) # {} =>
            Cardinality({p \in get_model_records(pr, n) : p.active}) = 1

\* a DELETE has removed version 1 of a retrained model: version 2 alone is
\* left, and it is the active one
C1_Witness ==
    /\ stmt.kind = "Delete"
    /\ answer.type = "OK"
    /\ \E p \in predictors :
          /\ p.version = 2 /\ p.active
          /\ get_model_records(p.project, p.name) = {p}

\* C2: DELETE FROM <project>.models_versions WHERE ... fails with "Can't
\* remove active version" when a selected version is the active one and with
\* "is not found" when the WHERE selects no existing version of the (existing)
\* project; in both cases the versions of every model are as before.
C2_DeleteFailureKeepsVersions ==
    [][\A table \in VersionsTables, form \in WhereForms,
          v \in 1..MaxVersion, n \in ModelNames :
          LET selected == SelectedVersions(table, form, v, n) IN
          (/\ stmt'.kind = "Delete"
           /\ TargetProject(table.parts) \in projects
           /\ DeleteModelVersionStep(DeleteStmt(table, form, v, n)))
          => /\ (\E p \in selected : p.active) =>
                   /\ answer' = Raise("Exception", "Can't remove active version")
                   /\ VersionNumbers' = VersionNumbers
                   /\ predictors' = predictors
             /\ selected = {} =>
                   /\ answer' = Raise("Exception", "is not found")
                   /\ VersionNumbers' = VersionNumbers
                   /\ predictors' = predictors
             /\ (selected # {} /\ \A p \in selected : ~p.active) =>
                   /\ answer'.type = "OK"
                   /\ predictors' = predictors \ selected]_vars

\* a DELETE without WHERE was refused for the active version while an
\* inactive version of the same model was selected with it
C2_Witness ==
    /\ stmt.kind = "Delete"
    /\ answer = Raise("Exception", "Can't remove active version")
    /\ \E p, q \in predictors :
          p.project = q.project /\ p.name = q.name /\ p.active /\ ~q.active

\* USING active=0, the key in any letter case
NoActivate(using) ==
    \E k \in DOMAIN using : lower(k) = "active" /\ using[k] = 0

\* C3: RETRAIN of an existing model adds one new version whose number is
\* greater than every existing version of the model; without active=0 the new
\* version becomes the active one once its training completes (the previously
\* active one becomes inactive); with active=0 the previously active version
\* stays the active one, at the RETRAIN and when the training completes.
C3_RetrainAddsVersion ==
    [][/\ \A name \in ModelIdentifiers, using \in UsingClauses :
            LET project == TargetProject(name.parts)
                old == get_model_records(project, Last(name.parts))
            IN (/\ stmt'.kind = "RetrainPredictor"
                /\ answer'.type # "ERROR"
                /\ RetrainPredictorStep(RetrainPredictorStmt(name, using)))
               => \E p \in predictors' :
                     /\ p \notin predictors
                     /\ predictors' = predictors \cup {p}
                     /\ p.project = project /\ p.name = Last(name.parts)
                     /\ old # {}
                     /\ \A q \in old : p.version > q.version
                     /\ ~p.active /\ p.status = "training"
                     /\ p.set_active = ~NoActivate(using)
       /\ \A p \in predictors :
            (stmt'.kind = "learn_process" /\ LearnProcessStep(p, TRUE))
            => LET was == get_model_records(p.project, p.name)
                   now == {q \in predictors' : q.project = p.project /\ q.name = p.name}
               IN /\ {q.version : q \in now} = {q.version : q \in was}
                  /\ {q.version : q \in {x \in now : x.active}} =
                        IF p.set_active THEN {p.version}
                        ELSE {q.version : q \in {x \in was : x.active}}]_vars

\* the training of version 2, retrained without active=0, has completed:
\* version 2 is the active one and version 1 no longer is
C3_Witness ==
    /\ stmt.kind = "learn_process"
    /\ \E p, q \in predictors :
          /\ p.project = q.project /\ p.name = q.name
          /\ p.version = 2 /\ p.active /\ p.status = "complete"
          /\ q.version = 1 /\ ~q.active

\* the rows of <project>.<table> whose NAME is name
RowsNamed(project, table, name) ==
    LET dn == get(project)
        r == datanode_query(dn,
               Select(<<Star>>, Identifier(<<table>>),
                      BinaryOperation("=", <<Identifier(<<"name">>), Constant(name)>>)))
    IN IF dn.type = NONE THEN {} ELSE r.data

\* C4: after DROP MODEL <project>.<name> succeeds, neither <project>.models
\* nor <project>.models_versions has a row with that name.
C4_DropRemovesEveryVersion ==
    (stmt.kind = "DropPredictor" /\ answer.type = "OK")
    => /\ RowsNamed(TargetProject(stmt.target), "models", Last(stmt.target)) = {}
       /\ RowsNamed(TargetProject(stmt.target), "models_versions", Last(stmt.target)) = {}

\* a DROP MODEL has succeeded and left no version in mindsdb, while the model
\* of the same name in proj still has its versions
C4_Witness ==
    /\ stmt.kind = "DropPredictor"
    /\ stmt.target = <<"m">>
    /\ answer.type = "OK"
    /\ \E p \in predictors : p.project = "proj"
    /\ \A p \in predictors : p.project # "mindsdb"

\* the unfiltered rows of a catalog table
View(table) ==
    information_schema_query(Select(<<Star>>, Identifier(<<table>>), NoWhere))

VersionKey(r) == <<r.PROJECT, r.NAME, r.VERSION>>

\* C5: in every state MODELS has exactly one row per active model version and
\* MODELS_VERSIONS exactly one row per existing version, across all projects;
\* the rows of MODELS are the rows of MODELS_VERSIONS whose ACTIVE is true, so
\* a deleted version is in neither.
C5_ModelsViews ==
    LET models == View("MODELS")
        versions == View("MODELS_VERSIONS")
        active == {p \in predictors : p.active}
    IN /\ models.err = NONE /\ versions.err = NONE
       /\ Cardinality(models.data) = Cardinality(active)
       /\ {VersionKey(r) : r \in models.data} =
             {<<p.project, p.name, p.version>> : p \in active}
       /\ Cardinality(versions.data) = Cardinality(predictors)
       /\ {VersionKey(r) : r \in versions.data} =
             {<<p.project, p.name, p.version>> : p \in predictors}
       /\ {VersionKey(r) : r \in models.data} =
             {VersionKey(r) : r \in {x \in versions.data : x.ACTIVE}}

\* both projects hold a model; version 1 of mindsdb.m was deleted after the
\* retrained version 2 became active, and no view lists it
C5_Witness ==
    /\ predictors # {}
    /\ \A p \in predictors :
          /\ p.active
          /\ p.version = IF p.project = "mindsdb" THEN 2 ELSE 1
    /\ Cardinality(View("MODELS").data) = 2
    /\ Cardinality(View("MODELS_VERSIONS").data) = 2


(***************************************************************************)
(* Dispatch: execute_command on statements of every kind                   *)
(***************************************************************************)
\* the statement classes execute_command names, Alter among them
KnownKinds ==
    {"CreateDatabase", "CreateMLEngine", "DropMLEngine", "DropPredictor",
     "DropTables", "DropDatasource", "DropDatabase", "Describe",
     "RetrainPredictor", "FinetunePredictor", "Show", "StartTransaction",
     "CommitTransaction", "RollbackTransaction", "Set", "Use",
     "CreatePredictor", "CreateAnomalyDetectionModel", "CreateView", "DropView",
     "Delete", "Insert", "Update", "Alter", "Select", "Union", "Explain",
     "CreateTable", "CreateJob", "DropJob", "CreateTrigger", "DropTrigger",
     "CreateChatBot", "UpdateChatBot", "DropChatBot", "CreateKnowledgeBase",
     "DropKnowledgeBase", "CreateSkill", "DropSkill", "UpdateSkill",
     "CreateAgent", "DropAgent", "UpdateAgent", "Evaluate"}

\* parsed statements of a class execute_command does not name
UnknownKinds == {"ASTNode", "CreateFile"}

\* Show.category values, as the parser writes them
ShowCategories ==
    {"predictors", "models", "ml_engines", "handlers", "plugins", "databases",
     "schemas", "tables", "TABLES", "full tables", "variables",
     "session variables", "session status", "global variables", "search_path",
     "status", "function status", "procedure status", "index", "keys",
     "indexes", "create table", "character set", "charset", "warnings",
     "engines", "collation", "table status", "columns", "knowledge_bases",
     "knowledge bases", "grants"}

\* the text fragments execute_command searches the statement's SQL for
TextFragments ==
    {"enable keys", "disable keys", "show status like 'ssl_version'",
     "show create table"}

\* which of the fragments the SQL text of a statement contains: none, one
\* of them, or both of the key fragments
SqlTexts == {{}} \cup {{f} : f \in TextFragments} \cup {{"enable keys", "disable keys"}}

KindsWithTable == {"Delete", "Insert", "Update"}

DispatchCategories(kind) == IF kind = "Show" THEN ShowCategories ELSE {NONE}

DispatchTables(kind) ==
    IF kind \in KindsWithTable
    THEN {<<"models_versions">>, <<"proj", "Models_Versions">>, <<"t">>, <<"mindsdb", "t">>,
          <<"pg", "t">>}
    ELSE {<<"t">>}

DispatchFlags(kind) ==
    IF kind \in KindsWithTable \cup {"Select"} THEN BOOLEAN ELSE {FALSE}

\* a parsed statement with the attributes execute_command reads
Statement(kind, category, table, is_knowledge_base, absent) ==
    [kind |-> kind,
     category |-> category,
     table |-> Identifier(table),
     is_knowledge_base |-> is_knowledge_base,
     from_select |-> IF absent THEN NoWhere ELSE Select(<<Star>>, Identifier(table), NoWhere),
     from_table |-> IF absent THEN NoWhere ELSE Identifier(table)]

\* execute_command up to the routine it hands the statement to
ExecuteCommand ==
    \E kind \in KnownKinds \cup UnknownKinds, sql_lower \in SqlTexts :
    \E category \in DispatchCategories(kind), table \in DispatchTables(kind),
       is_knowledge_base \in DispatchFlags(kind), absent \in DispatchFlags(kind) :
      LET statement == Statement(kind, category, table, is_knowledge_base, absent)
      IN /\ stmt' = [kind |-> kind, target |-> table, category |-> category,
                     is_knowledge_base |-> is_knowledge_base, absent |-> absent,
                     sql_lower |-> sql_lower]
         /\ routine' = execute_command(statement, sql_lower)
         /\ answer' = IF routine' = "ErNotSupportedYet"
                      THEN Raise("ErNotSupportedYet", "Unknown SQL statement")
                      ELSE IF routine' = "ErBadTableError"
                      THEN Raise("ErBadTableError", "Only 'DELETE' from database 'mindsdb' is possible")
                      ELSE answer
         /\ calls' = <<>>
         /\ UNCHANGED <<handler_vars, views, files, projects, integrations, predictors, entities, database>>

\* the names USE is given: databases that may exist, "null", an unknown one
UseNames == {"mindsdb", "proj", "information_schema", "pg", "null", "nodb"}

Use == \E db \in UseNames : UseStep(UseStmt(db))

NextDispatch ==
    \/ ExecuteCommand
    \/ Use

SpecDispatch == Init /\ [][NextDispatch]_vars

\* the routines that handle a statement of the given kind
OwnRoutines(kind) ==
    CASE kind = "Select" ->
            {"answer_single_row_select", "kb_controller.execute_query", "answer_select"}
      [] kind = "Union" -> {"answer_select"}
      [] kind = "Explain" -> {"answer_show_columns"}
      [] kind = "CreateTable" -> {"answer_apply_predictor"}
      [] kind = "CreateJob" -> {"answer_create_job"}
      [] kind = "DropJob" -> {"answer_drop_job"}
      [] kind = "CreateTrigger" -> {"answer_create_trigger"}
      [] kind = "DropTrigger" -> {"answer_drop_trigger"}
      [] kind = "CreateChatBot" -> {"answer_create_chatbot"}
      [] kind = "UpdateChatBot" -> {"answer_update_chatbot"}
      [] kind = "DropChatBot" -> {"answer_drop_chatbot"}
      [] kind = "CreateKnowledgeBase" -> {"answer_create_kb"}
      [] kind = "DropKnowledgeBase" -> {"anwser_drop_kb"}
      [] kind = "CreateSkill" -> {"answer_create_skill"}
      [] kind = "DropSkill" -> {"answer_drop_skill"}
      [] kind = "UpdateSkill" -> {"answer_update_skill"}
      [] kind = "CreateAgent" -> {"answer_create_agent"}
      [] kind = "DropAgent" -> {"answer_drop_agent"}
      [] kind = "UpdateAgent" -> {"answer_update_agent"}
      [] kind = "Evaluate" -> {"answer_evaluate_metric"}
      [] kind \in UnknownKinds -> {"ErNotSupportedYet"}

\* the kinds the claim names: the statements dispatched after the Alter
\* branch and the statements of no recognized kind
ListedKinds ==
    {"Select", "Union", "Explain", "CreateTable", "CreateJob", "DropJob",
     "CreateTrigger", "DropTrigger", "CreateChatBot", "UpdateChatBot",
     "DropChatBot", "CreateKnowledgeBase", "DropKnowledgeBase", "CreateSkill",
     "DropSkill", "UpdateSkill", "CreateAgent", "DropAgent", "UpdateAgent",
     "Evaluate"} \cup UnknownKinds

\* C6: execute_command handles a statement with the routine of the
\* statement's own kind, whatever text its SQL contains: a Select, Union,
\* Explain, CreateTable, CreateJob, DropJob, trigger, chatbot, knowledge-base,
\* skill, agent or Evaluate statement always reaches its own handler and a
\* statement of no recognized kind always raises ErNotSupportedYet.
C6_OwnRoutineWhateverText ==
    stmt.kind \in ListedKinds => routine \in OwnRoutines(stmt.kind)


(***************************************************************************)
(* Catalog: USE, SHOW TABLES and queries on information_schema.TABLES      *)
(***************************************************************************)
\* f"Tables_in_{schema}"
Tables_in(schema) ==
    CASE schema = "mindsdb" -> "Tables_in_mindsdb"
      [] schema = "proj" -> "Tables_in_proj"
      [] schema = "information_schema" -> "Tables_in_information_schema"
      [] schema = "files" -> "Tables_in_files"
      [] schema = "pg" -> "Tables_in_pg"
      [] schema = "nodb" -> "Tables_in_nodb"
      [] schema = "TABLES" -> "Tables_in_TABLES"

\* functools.reduce over the collected conditions with 'and'
RECURSIVE reduce_and(_)
reduce_and(where) ==
    IF Len(where) = 1 THEN where[1]
    ELSE BinaryOperation("and",
            <<reduce_and(SubSeq(where, 1, Len(where) - 1)), where[Len(where)]>>)

\* _get_show_where: the initial condition, the FROM and LIKE conditions of
\* the statement and its own WHERE, AND-ed; None when there is none
_get_show_where(statement, from_name, like_name, initial) ==
    LET where ==
           (IF initial.type # "NoneType" THEN <<initial>> ELSE <<>>)
           \o (IF statement.from_table.type # "NoneType" /\ from_name # NONE
               THEN <<BinaryOperation("=", <<Identifier(<<from_name>>),
                         Constant(Last(statement.from_table.parts))>>)>>
               ELSE <<>>)
           \o (IF statement.like # NONE /\ like_name # NONE
               THEN <<BinaryOperation("like", <<Identifier(<<like_name>>),
                         Constant(statement.like)>>)>>
               ELSE <<>>)
           \o (IF statement.where.type # "NoneType" THEN <<statement.where>> ELSE <<>>)
    IN IF where = <<>> THEN NoWhere ELSE reduce_and(where)

\* the SELECT built for SHOW [FULL] TABLES: the schema is the FROM schema,
\* else the session database, else mindsdb
show_tables_statement(statement) ==
    LET schema == IF statement.from_table.type # "NoneType"
                  THEN Last(statement.from_table.parts)
                  ELSE IF database # NONE THEN database ELSE "mindsdb"
        table_types ==
           BinaryOperation("or", <<
              BinaryOperation("=", <<Identifier(<<"table_type">>), Constant("MODEL")>>),
              BinaryOperation("or", <<
                 BinaryOperation("=", <<Identifier(<<"table_type">>), Constant("BASE TABLE")>>),
                 BinaryOperation("or", <<
                    BinaryOperation("=", <<Identifier(<<"table_type">>), Constant("SYSTEM VIEW")>>),
                    BinaryOperation("=", <<Identifier(<<"table_type">>), Constant("VIEW")>>)>>)>>)>>)
        where ==
           BinaryOperation("and", <<
              BinaryOperation("=", <<Identifier(<<"table_schema">>), Constant(schema)>>),
              table_types>>)
        targets ==
           <<IdentifierAs(<<"table_name">>, Tables_in(schema))>>
           \o (IF "FULL" \in statement.modes
               THEN <<IdentifierAs(<<"TABLE_TYPE">>, "Table_type")>>
               ELSE <<>>)
    IN Select(targets, Identifier(<<"information_schema", "TABLES">>),
              _get_show_where([statement EXCEPT !.from_table = NoWhere],
                              NONE, Tables_in(schema), where))

\* SQLQuery(query).fetch(): the planner hands a single-table SELECT to the
\* data node of the database its FROM names (the session's when it names none)
SQLQuery_fetch(query) ==
    LET parts == query.from_table.parts
        dn == get(IF Len(parts) > 1 THEN parts[1] ELSE database)
    IN IF dn.type = NONE
       THEN [err |-> "ErBadDbError", data |-> {}]
       ELSE datanode_query(dn, [query EXCEPT !.from_table.parts = <<Last(parts)>>])

\* the ExecuteAnswer of fetched data (the exception of a failed fetch)
fetched(data) ==
    IF data.err # NONE THEN Raise(data.err, NONE) ELSE AnswerTable(data.data)

\* answer_select
answer_select(query) == fetched(SQLQuery_fetch(query))

\* SHOW [FULL] TABLES [FROM schema]
ShowStmt(category, from_table, modes) ==
    [kind |-> "Show", category |-> category, from_table |-> from_table,
     modes |-> modes, like |-> NONE, where |-> NoWhere]

ShowTablesStep(statement) ==
    /\ execute_command(statement, {}) = "show tables"
    /\ routine' = "show tables"
    /\ answer' = answer_select(show_tables_statement(statement))
    /\ stmt' = [kind |-> "Show",
                target |-> IF statement.from_table.type = "NoneType" THEN <<>>
                           ELSE statement.from_table.parts,
                modes |-> statement.modes]
    /\ calls' = <<>>
    /\ UNCHANGED <<handler_vars, views, files, projects, integrations, predictors, entities, database>>

\* the schemas SHOW TABLES is asked for
FromSchemas ==
    {<<"mindsdb">>, <<"proj">>, <<"information_schema">>, <<"pg">>, <<"files">>,
     <<"nodb">>, <<"TABLES">>}

ShowTables ==
    \/ \E modes \in {{}, {"FULL"}} : ShowTablesStep(ShowStmt("tables", NoWhere, modes))
    \/ \E parts \in FromSchemas, modes \in {{}, {"FULL"}} :
          ShowTablesStep(ShowStmt("tables", Identifier(parts), modes))

\* the WHERE of a query on TABLES that filters by TABLE_SCHEMA = s
SchemaWhere(form, s) ==
    LET eq == BinaryOperation("=", <<Identifier(<<"TABLE_SCHEMA">>), Constant(s)>>)
        true == BinaryOperation("=", <<Constant(1), Constant(1)>>)
    IN CASE form = "whole" -> eq
         [] form = "first conjunct" -> BinaryOperation("and", <<eq, true>>)
         [] form = "second conjunct" -> BinaryOperation("and", <<true, eq>>)

SchemaForms == {"whole", "first conjunct", "second conjunct"}

\* the schema names the queries filter by
SchemaNames == {"mindsdb", "proj", "information_schema", "pg", "files", "nodb", "TABLES"}

\* SELECT * FROM information_schema.TABLES WHERE ...
SelectTablesStep(form, s) ==
    LET query == Select(<<Star>>, Identifier(<<"information_schema", "TABLES">>),
                        SchemaWhere(form, s))
        statement == [kind |-> "Select", from_table |-> query.from_table,
                      is_knowledge_base |-> FALSE]
    IN /\ execute_command(statement, {}) = "answer_select"
       /\ routine' = "answer_select"
       /\ answer' = answer_select(query)
       /\ stmt' = [kind |-> "Select", target |-> query.from_table.parts,
                   form |-> form, schema |-> s]
       /\ calls' = <<>>
       /\ UNCHANGED <<handler_vars, views, files, projects, integrations, predictors, entities, database>>

SelectTables ==
    \E form \in SchemaForms, s \in SchemaNames : SelectTablesStep(form, s)

\* CREATE DATABASE pg WITH ENGINE = ...: the connection check passes or fails
\* and the integration can or cannot list its tables
CreateIntegration ==
    \E engine \in {"postgres", "aqicn"}, listable \in BOOLEAN, check \in {"ok", "fail"} :
      CreateDatabaseStep(<<"pg">>, engine, NoArgs, listable, check)

NextCatalog ==
    \/ CreateProject
    \/ CreateIntegration
    \/ CreatePredictor
    \/ Use
    \/ ShowTables
    \/ SelectTables

SpecCatalog == Init /\ [][NextCatalog]_vars

(***************************************************************************)
(* Claims on the catalog                                                   *)
(***************************************************************************)
\* the databases on record: information_schema, files, the projects and the
\* data integrations
DatabaseNames ==
    {"information_schema", "files"} \cup projects
    \cup {i.name : i \in {j \in integrations : j.type = "data"}}

\* C7: USE <db> sets the session default database to <db> when the database
\* exists; USE null answers OK and leaves the session default database
\* unchanged; USE of an unknown name raises ErBadDbError and leaves the
\* session default database unchanged.
C7_UseSwitchesDatabase ==
    [][\A db \in UseNames :
         UseStep(UseStmt(db)) =>
            IF db = "null"
            THEN answer'.type = "OK" /\ database' = database
            ELSE IF db \in DatabaseNames
            THEN answer'.type = "OK" /\ database' = db
            ELSE answer'.error = "ErBadDbError" /\ database' = database]_vars

\* USE proj was answered after the session had left the default database
C7_Witness ==
    /\ stmt.kind = "Use"
    /\ stmt.target = <<"proj">>
    /\ routine = "change_default_db"
    /\ answer.type = "OK"
    /\ database = "proj"

\* the schema a SHOW TABLES statement was answered for
ShownSchema == IF stmt.target = <<>> THEN database ELSE Last(stmt.target)

\* the names a SHOW TABLES answer lists
ShownNames == {r[Tables_in(ShownSchema)] : r \in answer.data}

TablesOf(schema) ==
    IF schema \in projects
    THEN ProjectTables
         \cup {p.name : p \in {x \in predictors : x.project = schema /\ x.active}}
    ELSE IF schema = "files" THEN FilesTables
    ELSE IF \E i \in integrations : i.name = schema /\ i.type = "data" /\ i.listable
    THEN IntegrationTables
    ELSE {}

AllTables == (information_schema_query(
                 Select(<<Star>>, Identifier(<<"TABLES">>), NoWhere))).data

\* C9: a query on TABLES filtered by TABLE_SCHEMA = s returns exactly the
\* TABLES rows whose TABLE_SCHEMA equals s, for every registered schema s,
\* whether the equality is the whole WHERE or one conjunct of a top-level
\* AND; for an s that names no schema it returns zero rows and no error.
C9_TablesFilteredBySchema ==
    (stmt.kind = "Select" /\ routine = "answer_select") =>
        /\ answer.type = "TABLE"
        /\ answer.data = {r \in AllTables : r.TABLE_SCHEMA = stmt.schema}
        /\ stmt.schema \notin DatabaseNames => answer.data = {}


(***************************************************************************)
(* Jobs, triggers, chatbots, knowledge bases, skills and agents            *)
(***************************************************************************)
\* bound: the number of jobs, triggers, chatbots, knowledge bases, skills
\* and agents on record at once
MaxEntities == 1

\* the record of one call of a controller: the exception it raised, if any
controller_call(op, r) == <<[op |-> op, raised |-> r.err, msg |-> r.msg]>>

\* <Controller>.add(name, project_name, ...): the project must exist and
\* hold no entity of that kind and name yet
controller_add(kind, name, project_name) ==
    LET found == ProjectController_get(project_name) IN
    IF found = {}
    THEN [err |-> "ValueError", msg |-> "Project not found", entities |-> entities]
    ELSE LET project == CHOOSE x \in found : TRUE IN
         IF \E e \in entities : e.kind = kind /\ e.name = name /\ e.project = project
         THEN [err |-> "ValueError", msg |-> "already exists", entities |-> entities]
         ELSE [err |-> NONE, msg |-> NONE,
               entities |-> entities \cup
                  {[kind |-> kind, name |-> name, project |-> project]}]

\* answer_create_trigger
answer_create_trigger(statement) ==
    LET name == statement.name
        trigger_name == Last(name.parts)
        project_name == IF Len(name.parts) > 1 THEN name.parts[Len(name.parts) - 1]
                        ELSE database
        r == controller_add("trigger", trigger_name, project_name)
    IN [answer |-> IF r.err # NONE THEN Raise(r.err, r.msg) ELSE AnswerOK,
        entities |-> r.entities, calls |-> controller_call("add", r)]

\* answer_create_job
answer_create_job(statement) ==
    LET name == statement.name
        job_name == Last(name.parts)
        project_name == IF Len(name.parts) > 1 THEN name.parts[Len(name.parts) - 1]
                        ELSE database
        r == controller_add("job", job_name, project_name)
    IN [answer |-> IF r.err # NONE THEN Raise(r.err, r.msg) ELSE AnswerOK,
        entities |-> r.entities, calls |-> controller_call("add", r)]

\* answer_create_chatbot
answer_create_chatbot(statement) ==
    LET name == statement.name
        project_name == IF Len(name.parts) > 1 THEN name.parts[Len(name.parts) - 1]
                        ELSE database
    IN IF Last(statement.database.parts) \notin integration_names
       THEN [answer |-> Raise("SqlApiException", "Database not found"),
             entities |-> entities]
       ELSE LET r == controller_add("chatbot", Last(name.parts), project_name) IN
            [answer |-> IF r.err # NONE THEN Raise(r.err, r.msg) ELSE AnswerOK,
             entities |-> r.entities, calls |-> controller_call("add", r)]

\* f"{kb_name}_{engine}" of _create_persistent_chroma
vector_store_name(kb_name) == CASE kb_name = "e" -> "e_chromadb"

\* answer_create_kb; check is the outcome of the connection check of the
\* default vector store, made when the statement names no storage
answer_create_kb(statement, check) ==
    LET project_name == IF Len(statement.name.parts) > 1
                        THEN statement.name.parts[1] ELSE database
        kb_name == Last(statement.name.parts)
        has_storage == statement.storage.type # "NoneType"
        chroma == IF has_storage
                  THEN [err |-> NONE, msg |-> NONE, integrations |-> integrations]
                  ELSE _create_integration(vector_store_name(kb_name), "chromadb",
                          [args |-> <<>>, listable |-> TRUE], check)
        vector_db_name == IF has_storage THEN statement.storage.parts[1]
                          ELSE vector_store_name(kb_name)
    IN IF ProjectController_get(project_name) = {}
       THEN [answer |-> Raise("SqlApiException", "Project not found"),
             entities |-> entities, integrations |-> integrations]
       ELSE IF (_get_model_info(statement.model)).model_record = {}
       THEN [answer |-> Raise("SqlApiException", "Model not found"),
             entities |-> entities, integrations |-> integrations]
       ELSE IF has_storage /\ Len(statement.storage.parts) < 2
       THEN [answer |-> Raise("SqlApiException", "Invalid vectordatabase table name"),
             entities |-> entities, integrations |-> integrations]
       ELSE IF chroma.err # NONE
       THEN [answer |-> Raise(chroma.err, chroma.msg),
             entities |-> entities, integrations |-> integrations]
       ELSE IF vector_db_name \notin
                  {d.name : d \in get_list} \cup {i.name : i \in chroma.integrations}
       THEN [answer |-> Raise("SqlApiException", "Database not found"),
             entities |-> entities, integrations |-> chroma.integrations]
       ELSE IF statement.from_query
       THEN [answer |-> Raise("SqlApiException", "not supported yet"),
             entities |-> entities, integrations |-> chroma.integrations]
       ELSE LET r == controller_add("kb", kb_name, project_name) IN
            [answer |-> IF r.err = NONE \/ statement.if_not_exists
                        THEN AnswerOK ELSE Raise(r.err, r.msg),
             entities |-> r.entities, integrations |-> chroma.integrations,
             calls |-> IF statement.if_not_exists THEN <<>> ELSE controller_call("add", r)]

\* answer_create_skill
answer_create_skill(statement) ==
    LET name == Last(statement.name.parts)
        project_name == IF Len(statement.name.parts) > 1
                        THEN statement.name.parts[1] ELSE database
        r == controller_add("skill", name, project_name)
    IN [answer |-> IF r.err # NONE THEN Raise("SqlApiException", r.msg) ELSE AnswerOK,
        entities |-> r.entities, calls |-> controller_call("add", r)]

\* answer_create_agent
answer_create_agent(statement) ==
    LET name == Last(statement.name.parts)
        project_name == IF Len(statement.name.parts) > 1
                        THEN statement.name.parts[1] ELSE database
        r == controller_add("agent", name, project_name)
    IN [answer |-> IF r.err # NONE THEN Raise("SqlApiException", r.msg) ELSE AnswerOK,
        entities |-> r.entities, calls |-> controller_call("add", r)]

\* the names the statements give the entity they create
EntityIdentifiers == {Identifier(<<"e">>), Identifier(<<"proj", "e">>)}

\* a handler that changes the entities on record only
EntityStep(statement, name, r) ==
    /\ execute_command(statement, {}) = name
    /\ routine' = name
    /\ Cardinality(r.entities) <= MaxEntities
    /\ entities' = r.entities
    /\ answer' = r.answer
    /\ stmt' = StatementHead(statement)
    /\ calls' = IF "calls" \in DOMAIN r THEN r.calls ELSE <<>>
    /\ UNCHANGED <<handler_vars, views, files, projects, integrations, predictors, database>>

CreateTrigger ==
    \E name \in EntityIdentifiers :
      LET statement == [kind |-> "CreateTrigger", name |-> name]
      IN EntityStep(statement, "answer_create_trigger", answer_create_trigger(statement))

CreateJob ==
    \E name \in EntityIdentifiers :
      LET statement == [kind |-> "CreateJob", name |-> name]
      IN EntityStep(statement, "answer_create_job", answer_create_job(statement))

CreateChatBot ==
    \E name \in EntityIdentifiers, db \in {"pg", "nodb"} :
      LET statement == [kind |-> "CreateChatBot", name |-> name,
                        database |-> Identifier(<<db>>)]
      IN EntityStep(statement, "answer_create_chatbot", answer_create_chatbot(statement))

CreateSkill ==
    \E name \in EntityIdentifiers :
      LET statement == [kind |-> "CreateSkill", name |-> name]
      IN EntityStep(statement, "answer_create_skill", answer_create_skill(statement))

CreateAgent ==
    \E name \in EntityIdentifiers :
      LET statement == [kind |-> "CreateAgent", name |-> name]
      IN EntityStep(statement, "answer_create_agent", answer_create_agent(statement))

\* CREATE KNOWLEDGE BASE ... USING model = m [, storage = ...]
CreateKnowledgeBase ==
    \E name \in EntityIdentifiers,
       storage \in {NoWhere, Identifier(<<"pg", "t">>), Identifier(<<"t">>)},
       check \in {"ok", "fail"}, from_query \in BOOLEAN :
      LET statement == [kind |-> "CreateKnowledgeBase", name |-> name,
                        model |-> Identifier(<<"m">>), storage |-> storage,
                        from_query |-> from_query, if_not_exists |-> FALSE]
          r == answer_create_kb(statement, check)
      IN /\ execute_command(statement, {}) = "answer_create_kb"
         /\ routine' = "answer_create_kb"
         /\ Cardinality(r.entities) <= MaxEntities
         /\ entities' = r.entities
         /\ integrations' = r.integrations
         /\ answer' = r.answer
         /\ stmt' = StatementHead(statement)
         /\ calls' = IF "calls" \in DOMAIN r THEN r.calls ELSE <<>>
         /\ UNCHANGED <<handler_vars, views, files, projects, predictors, database>>

\* SELECT * FROM information_schema.<table>
SelectTableStep(table_name) ==
    LET query == Select(<<Star>>, Identifier(<<"information_schema", table_name>>), NoWhere)
        statement == [kind |-> "Select", from_table |-> query.from_table,
                      is_knowledge_base |-> FALSE]
    IN /\ execute_command(statement, {}) = "answer_select"
       /\ routine' = "answer_select"
       /\ answer' = answer_select(query)
       /\ stmt' = [kind |-> "Select", target |-> query.from_table.parts]
       /\ calls' = <<>>
       /\ UNCHANGED <<handler_vars, views, files, projects, integrations, predictors, entities, database>>

SelectTable == \E table_name \in DOMAIN information_schema : SelectTableStep(table_name)

\* CREATE MODEL m in the session's database
CreateModel == CreatePredictorStep(CreatePredictorStmt(Identifier(<<"m">>)))

\* CREATE DATABASE pg WITH ENGINE = 'postgres'
CreatePostgres ==
    \E check \in {"ok", "fail"} : CreateDatabaseStep(<<"pg">>, "postgres", NoArgs, TRUE, check)

NextRegistry ==
    \/ CreateProject
    \/ CreatePostgres
    \/ CreateModel
    \/ CreateTrigger
    \/ CreateJob
    \/ CreateChatBot
    \/ CreateKnowledgeBase
    \/ CreateSkill
    \/ CreateAgent
    \/ SelectTable

SpecRegistry == Init /\ [][NextRegistry]_vars

\* C10: for every virtual table name of the information_schema registry,
\* get_table_columns returns a non-empty column list, a producer is
\* registered for it, and an unfiltered single-table query on it succeeds
\* and returns rows that each have exactly as many fields as that column
\* list (zero rows for the tables without a dedicated producer), in every
\* state of the projects, the integrations and the databases.
C10_EveryVirtualTableAnswers ==
    /\ \A t \in DOMAIN information_schema :
          /\ get_table_columns(t) # <<>>
          /\ t \in DOMAIN get_dataframe_funcs
    /\ (stmt.kind = "Select" /\ routine = "answer_select") =>
          LET t == Last(stmt.target) IN
          /\ answer.type = "TABLE"
          /\ \A r \in answer.data :
                Cardinality(DOMAIN r) = Len(get_table_columns(t))
          /\ t \notin DOMAIN DedicatedFuncs => answer.data = {}

\* KNOWLEDGE_BASES was queried while a knowledge base was on record, and
\* the answer holds its row
C10_Witness ==
    /\ stmt.kind = "Select"
    /\ routine = "answer_select"
    /\ stmt.target = <<"information_schema", "KNOWLEDGE_BASES">>
    /\ answer.type = "TABLE"
    /\ answer.data # {}
    /\ \E e \in entities : e.kind = "kb"

(***************************************************************************)
(* Queries on the catalog-backed tables of a project                       *)
(***************************************************************************)
\* the WHERE clauses the queries on a project table are written with
NameWhere(form) ==
    CASE form = "none" -> NoWhere
      [] form = "name = e" ->
            BinaryOperation("=", <<Identifier(<<"name">>), Constant("e")>>)
      [] form = "name = m" ->
            BinaryOperation("=", <<Identifier(<<"name">>), Constant("m")>>)

NameForms == {"none", "name = e", "name = m"}

\* SELECT * FROM <project>.<table> [WHERE ...]
SelectProjectTableStep(project, table, form) ==
    LET query == Select(<<Star>>, Identifier(<<project, table>>), NameWhere(form))
        statement == [kind |-> "Select", from_table |-> query.from_table,
                      is_knowledge_base |-> FALSE]
    IN /\ execute_command(statement, {}) = "answer_select"
       /\ routine' = "answer_select"
       /\ answer' = answer_select(query)
       /\ stmt' = [kind |-> "Select", target |-> query.from_table.parts,
                   form |-> form]
       /\ calls' = <<>>
       /\ UNCHANGED <<handler_vars, views, files, projects, integrations, predictors, entities, database>>

SelectProjectTable ==
    \E project \in ProjectNames, table \in ProjectTables, form \in NameForms :
       SelectProjectTableStep(project, table, form)

NextProject ==
    \/ CreateProject
    \/ CreatePostgres
    \/ CreatePredictor
    \/ CreateTrigger
    \/ CreateJob
    \/ CreateChatBot
    \/ CreateSkill
    \/ CreateAgent
    \/ SelectProjectTable

SpecProject == Init /\ [][NextProject]_vars

\* the entity kind a catalog-backed project table lists
KindOfTable(table) ==
    CASE table = "jobs" -> "job"
      [] table = "jobs_history" -> "job_history"
      [] table = "mdb_triggers" -> "trigger"
      [] table = "chatbots" -> "chatbot"
      [] table = "skills" -> "skill"
      [] table = "agents" -> "agent"

\* the names on record in a project table of a project
NamesOf(project, table) ==
    IF table = "models"
    THEN {p.name : p \in {x \in predictors : x.project = project /\ x.active}}
    ELSE IF table = "models_versions"
    THEN {p.name : p \in {x \in predictors : x.project = project}}
    ELSE {e.name : e \in {x \in entities :
                            x.kind = KindOfTable(table) /\ x.project = project}}

\* the names a WHERE of the given form keeps
KeptBy(form, names) ==
    CASE form = "none" -> names
      [] form = "name = e" -> names \cap {"e"}
      [] form = "name = m" -> names \cap {"m"}

\* C11: for every catalog-backed table T of a project and every WHERE
\* clause w of the statement, including none, ProjectDataNode.query returns
\* exactly the rows of T that belong to this project and satisfy w: no row
\* of another project, and no row of this project that satisfies w is
\* missing.
C11_ProjectRowsExactly ==
    (/\ stmt.kind = "Select"
     /\ routine = "answer_select"
     /\ Len(stmt.target) = 2
     /\ stmt.target[1] \in projects
     /\ stmt.target[2] \in ProjectTables) =>
        /\ answer.type = "TABLE"
        /\ \A r \in answer.data : r.PROJECT = stmt.target[1]
        /\ {r.NAME : r \in answer.data}
              = KeptBy(stmt.form, NamesOf(stmt.target[1], stmt.target[2]))

(***************************************************************************)
(* Views                                                                   *)
(***************************************************************************)
\* bound: the number of view definitions stored at once
MaxViews == 2

\* the SQL texts CREATE VIEW is given, as token sequences
ViewQueries ==
    {<<"select * from information_schema.TABLES">>,
     <<"select * from nodb.t">>,
     <<"select * from models union select * from models_versions">>}

\* parse_sql(query_str, dialect="mindsdb") on these texts
parse_sql(query_str) ==
    CASE query_str = <<"select * from information_schema.TABLES">> ->
            Select(<<Star>>, Identifier(<<"information_schema", "TABLES">>), NoWhere)
      [] query_str = <<"select * from nodb.t">> ->
            Select(<<Star>>, Identifier(<<"nodb", "t">>), NoWhere)
      [] query_str = <<"select * from models union select * from models_versions">> ->
            [type |-> "Union",
             left |-> Select(<<Star>>, Identifier(<<"models">>), NoWhere),
             right |-> Select(<<Star>>, Identifier(<<"models_versions">>), NoWhere)]
      [] OTHER -> [type |-> "Exception"]

\* Select(targets=[Star()], from_table=NativeQuery(integration, query))
NativeSelect(integration, query_str) ==
    Select(<<Star>>,
           [type |-> "NativeQuery", integration |-> integration, query |-> query_str],
           NoWhere)

\* SqlalchemyRender("mysql").get_string of the pass-through SELECT
get_string(query) ==
    <<"SELECT * FROM ">> \o query.from_table.integration.parts
       \o <<" (">> \o query.from_table.query \o <<")">>

\* query.limit = Constant(n)
WithLimit(query, n) ==
    [type |-> query.type, targets |-> query.targets, from_table |-> query.from_table,
     where |-> query.where, limit |-> Constant(n)]

\* SQLQuery(query).fetch() of the validation run: a pass-through query is
\* answered by its integration (native is its outcome there: success, an
\* answer with success = False, which answer_create_view turns into
\* SqlApiException, or an exception)
view_fetch(query, native) ==
    IF query.from_table.type = "NativeQuery"
    THEN IF (get(Last(query.from_table.integration.parts))).type # "integration"
         THEN [err |-> "ErBadDbError", data |-> {}]
         ELSE IF native = "ok" THEN [err |-> NONE, data |-> {}]
         ELSE IF native = "fail" THEN [err |-> "SqlApiException", data |-> {}]
         ELSE [err |-> "Exception", data |-> {}]
    ELSE SQLQuery_fetch(query)

\* get_project(project_name).create_view(name, query)
create_view(project_name, name, query) ==
    IF project_name \notin projects
    THEN [err |-> "EntityNotExistsError", views |-> views]
    ELSE IF \E v \in views : v.project = project_name /\ v.name = name
    THEN [err |-> "EntityExistsError", views |-> views]
    ELSE [err |-> NONE,
          views |-> views \cup {[project |-> project_name, name |-> name, query |-> query]}]

\* one execution of a nested query, and whether an exception left the
\* block it was executed in
nested_fetch(limit, success, raised) ==
    <<[op |-> "SQLQuery.fetch", limit |-> limit, success |-> success, raised |-> raised]>>

\* set_context; try: ... ; release_context without the finally
context_calls_no_finally(kind, id, nested) ==
    <<[op |-> "set_context", kind |-> kind, id |-> id]>> \o nested
       \o (IF \E i \in 1..Len(nested) : nested[i].raised THEN <<>>
           ELSE <<[op |-> "release_context", kind |-> kind, id |-> id]>>)

\* query_context_controller.set_context(kind, id); try: <nested>;
\* finally: query_context_controller.release_context(kind, id)
context_calls(kind, id, nested) ==
    <<[op |-> "set_context", kind |-> kind, id |-> id]>> \o nested
       \o <<[op |-> "release_context", kind |-> kind, id |-> id]>>

\* the end of answer_create_view: the validation outcome, then create_view
checked_create_view(checked, fetch, project_name, view_name, query_str, limit) ==
    IF checked /\ fetch.err # NONE
    THEN [answer |-> Raise(fetch.err, NONE), views |-> views,
          calls |-> context_calls("ignore", <<>>, nested_fetch(limit, FALSE, TRUE))]
    ELSE LET r == create_view(project_name, view_name, query_str) IN
         [answer |-> IF r.err # NONE THEN Raise(r.err, NONE) ELSE AnswerOK,
          views |-> r.views,
          calls |-> (IF checked
                     THEN context_calls("ignore", <<>>, nested_fetch(limit, TRUE, FALSE))
                     ELSE <<>>)
                    \o <<[op |-> "create_view", limit |-> 0, success |-> r.err = NONE]>>]

\* answer_create_view
answer_create_view(statement, native) ==
    LET parts == statement.name.parts
        view_name == Last(parts)
        project_name == IF Len(parts) = 2 THEN parts[1] ELSE database
        from_source == statement.from_table.type = "Identifier"
        query == IF from_source
                 THEN NativeSelect(statement.from_table, statement.query_str)
                 ELSE parse_sql(statement.query_str)
        query_str == IF from_source THEN get_string(query) ELSE statement.query_str
    IN IF query.type = "Select"
       THEN checked_create_view(TRUE, view_fetch(WithLimit(query, 1), native),
                                project_name, view_name, query_str, 1)
       ELSE checked_create_view(FALSE, [err |-> NONE, data |-> {}],
                                project_name, view_name, query_str, NONE)

CreateViewStep(statement, r) ==
    /\ execute_command(statement, {}) = "answer_create_view"
    /\ routine' = "answer_create_view"
    /\ Cardinality(r.views) <= MaxViews
    /\ views' = r.views
    /\ answer' = r.answer
    /\ calls' = r.calls
    /\ stmt' = [kind |-> "CreateView", target |-> statement.name.parts,
                query_str |-> statement.query_str,
                from_table |-> statement.from_table]
    /\ UNCHANGED <<handler_vars, projects, integrations, predictors, entities, database, files>>

\* CREATE VIEW name AS ( query )
CreateViewAs ==
    \E parts \in {<<"v">>, <<"proj", "v">>}, query_str \in ViewQueries :
      LET statement == [kind |-> "CreateView", name |-> Identifier(parts),
                        query_str |-> query_str, from_table |-> NoWhere]
      IN CreateViewStep(statement, answer_create_view(statement, "ok"))

\* CREATE VIEW name FROM pg AS ( query )
CreateViewFrom ==
    \E parts \in {<<"v">>, <<"proj", "v">>}, native \in {"ok", "fail", "raise"} :
      LET statement == [kind |-> "CreateView", name |-> Identifier(parts),
                        query_str |-> <<"select * from nodb.t">>,
                        from_table |-> Identifier(<<"pg">>)]
      IN CreateViewStep(statement, answer_create_view(statement, native))

NextViews ==
    \/ CreateProject
    \/ CreatePostgres
    \/ Use
    \/ CreateViewAs
    \/ CreateViewFrom

SpecViews == Init /\ [][NextViews]_vars

\* the validation run of the last statement: executed with the forced limit
\* of 1, and successful
Validated ==
    \E i \in 1..Len(calls) :
       /\ calls[i].op = "SQLQuery.fetch"
       /\ calls[i].limit = 1
       /\ calls[i].success

\* C12: CREATE VIEW persists the view definition only after the view's
\* defining query has been executed successfully with a forced row limit of
\* 1; if that validation execution fails or raises, no view is created, and
\* the definition that is stored is the original query without the forced
\* limit.
C12_ViewStoredAfterValidation ==
    [][(views' # views =>
          /\ Validated'
          /\ \E v \in views' \ views :
                /\ views' = views \cup {v}
                /\ stmt'.from_table.type = "NoneType" => v.query = stmt'.query_str)
       /\ ((\E i \in 1..Len(calls') :
               calls'[i].op = "SQLQuery.fetch" /\ ~calls'[i].success)
             => views' = views /\ answer'.type = "ERROR")]_vars

(***************************************************************************)
(* CREATE DATABASE ... WITH ENGINE = ..., PARAMETERS = ...                 *)
(***************************************************************************)
\* the PARAMETERS the statements are written with
ArgSets ==
    {NoArgs, "host" :> "text", "as_service" :> "text", "bad" :> "text",
     "host" :> "text" @@ "as_service" :> "text",
     "code" :> "file" @@ "modules" :> "dict url"}
    \cup {"code" :> v : v \in ArgValues}

\* the outcomes of check_connection: success, success = False, an exception
CheckOutcomes == {"ok", "fail", "raise"}

CreateDatabase ==
    \E name \in {<<"pg">>, <<"a", "pg">>},
       engine \in {"postgres", "byom", "aqicn", "lightwood", "nohandler"},
       args \in ArgSets, check \in CheckOutcomes :
      CreateDatabaseStep(name, engine, args, TRUE, check)

NextDatabase ==
    \/ CreateProject
    \/ CreateDatabase

SpecDatabase == Init /\ [][NextDatabase]_vars

\* the argument schema the handler of an engine declares, if any
DeclaredArgs(engine) ==
    IF \E h \in handlers_import_status : h.name = engine
    THEN (CHOOSE h \in handlers_import_status : h.name = engine).connection_args
    ELSE [declared |-> FALSE, schema |-> <<>>]

\* the argument names of a statement that its engine's schema does not hold
OutsideSchema(engine, args) ==
    IF ~DeclaredArgs(engine).declared THEN {}
    ELSE {k \in DOMAIN args : k \notin DOMAIN DeclaredArgs(engine).schema}

\* the last statement was a CREATE DATABASE with a non-mindsdb engine
CreatedIntegration(s, r) ==
    s.kind = "CreateDatabase" /\ r = "answer_create_database" /\ s.engine # NONE

\* the call that added the integration: the connection check succeeded
\* before it and every PATH argument it stores is a resolved file
AddedChecked(s, c) ==
    /\ Len(c) = 2
    /\ c[1].op = "check_connection" /\ c[1].status = "ok"
    /\ c[2].op = "integration_controller.add"
    /\ c[2].name = s.target[1]
    /\ \A k \in DOMAIN c[2].args \ {"as_service"} :
          DeclaredArgs(s.engine).declared =>
             (DeclaredArgs(s.engine).schema[k] = "path" =>
                 c[2].args[k] \in {"file", "downloaded file"})

\* the connection check of the last statement failed or raised
CheckFailed(c) ==
    \E i \in 1..Len(c) : c[i].op = "check_connection" /\ c[i].status # "ok"

\* C13 as stated: CREATE DATABASE with a non-mindsdb engine adds the
\* integration to the registry only after its connection arguments pass
\* validation (no key outside the handler's declared schema, PATH arguments
\* resolved) and check_connection reports success; when the name has more
\* than one part, an argument is unknown, the connection check fails or
\* raises, or the name already exists, the statement raises an error and
\* the integration registry is unchanged.
C13_IntegrationAddedAfterValidation ==
    [][CreatedIntegration(stmt', routine') =>
         /\ integrations' # integrations =>
               /\ OutsideSchema(stmt'.engine, stmt'.args) = {}
               /\ AddedChecked(stmt', calls')
         /\ (\/ Len(stmt'.target) > 1
             \/ OutsideSchema(stmt'.engine, stmt'.args) # {}
             \/ CheckFailed(calls')
             \/ stmt'.target[1] \in integration_names) =>
                /\ answer'.type = "ERROR"
                /\ integrations' = integrations]_vars

\* C13 (amended): the same with as_service exempt from the schema check:
\* the integration is added only when no argument other than as_service is
\* outside the schema its handler declares, the PATH arguments are resolved
\* and check_connection succeeded; a name of more than one part, an unknown
\* argument other than as_service, a failed or raising connection check or
\* an existing name raise an error and leave the registry unchanged.
C13_IntegrationAddedAfterValidationButAsService ==
    [][CreatedIntegration(stmt', routine') =>
         /\ integrations' # integrations =>
               /\ OutsideSchema(stmt'.engine, stmt'.args) \subseteq {"as_service"}
               /\ AddedChecked(stmt', calls')
         /\ (\/ Len(stmt'.target) > 1
             \/ ~(OutsideSchema(stmt'.engine, stmt'.args) \subseteq {"as_service"})
             \/ CheckFailed(calls')
             \/ stmt'.target[1] \in integration_names) =>
                /\ answer'.type = "ERROR"
                /\ integrations' = integrations]_vars

\* CREATE DATABASE pg WITH ENGINE = 'byom' was answered OK: the integration
\* is on record and its PATH arguments were stored resolved
C13_Witness ==
    /\ CreatedIntegration(stmt, routine)
    /\ stmt.engine = "byom"
    /\ "code" \in DOMAIN stmt.args
    /\ stmt.args["code"] = "dict path file"
    /\ answer.type = "OK"
    /\ \E i \in integrations : i.name = "pg" /\ i.engine = "byom"
    /\ Len(calls) = 2
    /\ calls[2].op = "integration_controller.add"
    /\ calls[2].args["code"] = "file"

(***************************************************************************)
(* CREATE ML_ENGINE / DROP ML_ENGINE                                       *)
(***************************************************************************)
\* answer_drop_ml_engine
answer_drop_ml_engine(name, registered) ==
    IF name \notin {i.name : i \in registered}
    THEN [answer |-> Raise("SqlApiException", "does not exists"),
          integrations |-> registered, calls |-> <<>>]
    ELSE [answer |-> AnswerOK,
          integrations |-> {i \in registered : i.name # name},
          calls |-> <<[op |-> "integration_controller.delete", name |-> name]>>]

\* the create_engine step of answer_create_ml_engine that leaves the engine
\* on record whatever the hook does
create_engine_hook_kept(name, registered, hook) ==
    [answer |-> IF hook = "Exception" THEN Raise("Exception", NONE) ELSE AnswerOK,
     integrations |-> registered,
     calls |-> <<[op |-> "create_engine", name |-> name]>>]

\* the create_engine step of answer_create_ml_engine, the engine being
\* registered: hook is "absent" when the handler class has no create_engine,
\* else what the call does: "ok", "NotImplementedError" or "Exception"
create_engine_hook(name, registered, hook) ==
    IF hook = "absent"
    THEN [answer |-> AnswerOK, integrations |-> registered, calls |-> <<>>]
    ELSE IF hook \in {"ok", "NotImplementedError"}
    THEN [answer |-> AnswerOK, integrations |-> registered,
          calls |-> <<[op |-> "create_engine", name |-> name]>>]
    ELSE LET drop == answer_drop_ml_engine(name, registered) IN
         [answer |-> IF drop.answer.type = "ERROR" THEN drop.answer
                     ELSE Raise("Exception", NONE),
          integrations |-> drop.integrations,
          calls |-> <<[op |-> "create_engine", name |-> name]>> \o drop.calls]

\* answer_create_ml_engine
answer_create_ml_engine(statement, hook) ==
    LET name == Last(statement.name.parts)
        handler_module_meta == {h \in handlers_import_status : h.name = statement.handler}
    IN IF name \in integration_names
       THEN [answer |-> Raise("SqlApiException", "already exists"),
             integrations |-> integrations, calls |-> <<>>]
       ELSE IF handler_module_meta = {}
       THEN [answer |-> Raise("SqlApiException", "There is no engine"),
             integrations |-> integrations, calls |-> <<>>]
       ELSE IF \E h \in handler_module_meta : ~h.success
       THEN [answer |-> Raise("SqlApiException", "cannot be used"),
             integrations |-> integrations, calls |-> <<>>]
       ELSE LET added == [name |-> name, engine |-> statement.handler,
                          type |-> (CHOOSE h \in handler_module_meta : TRUE).type,
                          listable |-> FALSE]
                r == create_engine_hook(name, integrations \cup {added}, hook)
            IN [answer |-> r.answer, integrations |-> r.integrations,
                calls |-> <<[op |-> "integration_controller.add", name |-> name]>>
                          \o r.calls]

\* a handler that changes the integration registry only
IntegrationStep(statement, name, r) ==
    /\ execute_command(statement, {}) = name
    /\ routine' = name
    /\ integrations' = r.integrations
    /\ answer' = r.answer
    /\ calls' = r.calls
    /\ stmt' = [kind |-> statement.kind, target |-> statement.name.parts,
                handler |-> statement.handler]
    /\ UNCHANGED <<handler_vars, views, files, projects, predictors, entities, database>>

\* the names statements give ML engines
EngineNames == {<<"ml">>, <<"lightwood">>, <<"proj", "ml2">>}

\* CREATE ML_ENGINE name FROM handler
CreateMLEngine ==
    \E parts \in EngineNames,
       handler \in {"byom", "lightwood", "aqicn", "nohandler"},
       hook \in {"absent", "ok", "NotImplementedError", "Exception"} :
      LET statement == [kind |-> "CreateMLEngine", name |-> Identifier(parts),
                        handler |-> handler]
      IN IntegrationStep(statement, "answer_create_ml_engine",
                         answer_create_ml_engine(statement, hook))

\* DROP ML_ENGINE name
DropMLEngine ==
    \E parts \in EngineNames :
      LET statement == [kind |-> "DropMLEngine", name |-> Identifier(parts),
                        handler |-> NONE]
      IN IntegrationStep(statement, "answer_drop_ml_engine",
                         answer_drop_ml_engine(Last(parts), integrations))

NextEngines ==
    \/ CreatePostgres
    \/ CreateMLEngine
    \/ DropMLEngine

SpecEngines == Init /\ [][NextEngines]_vars

\* the last statement called the create_engine hook
HookCalled(c) == \E i \in 1..Len(c) : c[i].op = "create_engine"

deletable_tables(project, records) ==
    {p.name : p \in {x \in records : x.project = project /\ x.active}}
    \cup {v.name : v \in {x \in views : x.project = project}}

\* (db_name, table_name) of a target of DROP TABLE
drop_target(table) ==
    [db_name |-> IF Len(table.parts) > 1 THEN table.parts[1] ELSE database,
     table_name |-> Last(table.parts)]

\* the first loop of answer_drop_tables on one target: does it raise
drop_check_fails(table) ==
    LET t == drop_target(table) IN
    IF t.db_name = "files"
    THEN t.table_name \notin files
    ELSE \/ t.db_name \notin projects
         \/ t.table_name \notin deletable_tables(t.db_name, predictors)

\* ModelController.delete_model(model_name, project_name) on the records
delete_model(model_name, project_name, records) ==
    IF \A p \in records : ~(p.project = project_name /\ p.name = model_name)
    THEN [err |-> "Exception", records |-> records]
    ELSE [err |-> NONE,
          records |-> {p \in records :
                         ~(p.project = project_name /\ p.name = model_name)}]

\* the second loop of answer_drop_tables from target i on; s is what the
\* targets before i have left: [answer, predictors, files, calls]
RECURSIVE drop_loop(_, _, _)
drop_loop(tables, i, s) ==
    IF i > Len(tables) THEN s
    ELSE LET t == drop_target(tables[i]) IN
         IF t.db_name = "files"
         THEN IF t.table_name \in s.files
              THEN drop_loop(tables, i + 1,
                      [s EXCEPT !.files = @ \ {t.table_name},
                                !.calls = Append(@, [op |-> "files.DropTables",
                                                     name |-> t.table_name,
                                                     project |-> "files"])])
              ELSE drop_loop(tables, i + 1, s)
         ELSE IF t.db_name \notin projects
         THEN drop_loop(tables, i + 1, s)
         ELSE LET r == delete_model(t.table_name, t.db_name, s.predictors)
                  called == Append(s.calls, [op |-> "delete_model",
                                             name |-> t.table_name,
                                             project |-> t.db_name])
              IN IF r.err # NONE
                 THEN [s EXCEPT !.answer = Raise(r.err, NONE), !.calls = called]
                 ELSE drop_loop(tables, i + 1,
                         [s EXCEPT !.predictors = r.records, !.calls = called])

\* answer_drop_tables that deletes without the check of the targets
answer_drop_tables_unchecked(statement) ==
    drop_loop(statement.tables, 1,
       [answer |-> AnswerOK, predictors |-> predictors, files |-> files,
        calls |-> <<>>])

\* answer_drop_tables
answer_drop_tables(statement) ==
    IF /\ ~statement.if_exists
       /\ \E i \in 1..Len(statement.tables) : drop_check_fails(statement.tables[i])
    THEN [answer |-> Raise("SqlApiException", "Cannot delete a table"),
          predictors |-> predictors, files |-> files, calls |-> <<>>]
    ELSE drop_loop(statement.tables, 1,
            [answer |-> AnswerOK, predictors |-> predictors, files |-> files,
             calls |-> <<>>])

DropTablesStep(statement, r) ==
    /\ execute_command(statement, {}) = "answer_drop_tables"
    /\ routine' = "answer_drop_tables"
    /\ predictors' = r.predictors
    /\ files' = r.files
    /\ answer' = r.answer
    /\ calls' = r.calls
    /\ stmt' = [kind |-> "DropTables", target |-> <<>>,
                tables |-> statement.tables, if_exists |-> statement.if_exists]
    /\ UNCHANGED <<handler_vars, views, projects, integrations, entities, database>>

\* the targets DROP TABLE statements name
DropTargets ==
    {Identifier(<<"m">>), Identifier(<<"proj", "m">>), Identifier(<<"mindsdb", "models">>),
     Identifier(<<"files", "f">>), Identifier(<<"files", "nofile">>),
     Identifier(<<"pg", "t">>)}

\* DROP TABLE [IF EXISTS] t1 [, t2]
DropTables ==
    \E tables \in {<<a>> : a \in DropTargets}
                  \cup {<<a, b>> : a \in DropTargets, b \in DropTargets},
       if_exists \in BOOLEAN :
      LET statement == [kind |-> "DropTables", tables |-> tables,
                        if_exists |-> if_exists]
      IN DropTablesStep(statement, answer_drop_tables(statement))

NextTables ==
    \/ CreateProject
    \/ CreatePostgres
    \/ CreatePredictor
    \/ DropTables

SpecTables == Init /\ [][NextTables]_vars

\* C15: DROP TABLE without IF EXISTS over a list of targets validates every
\* target before deleting any: if one target does not exist in 'files',
\* names a database that is not a project, or is not an existing deletable
\* table of its project, the statement raises SqlApiException and none of
\* the listed tables is deleted.
C15_DropTablesValidatesFirst ==
    [][(/\ stmt'.kind = "DropTables"
        /\ ~stmt'.if_exists
        /\ \E i \in 1..Len(stmt'.tables) : drop_check_fails(stmt'.tables[i])) =>
           /\ answer'.type = "ERROR"
           /\ answer'.error = "SqlApiException"
           /\ calls' = <<>>
           /\ predictors' = predictors
           /\ files' = files]_vars

\* DROP TABLE m, files.nofile was refused while model m was on record, and
\* m is still on record
C15_Witness ==
    /\ stmt.kind = "DropTables"
    /\ ~stmt.if_exists
    /\ stmt.tables = <<Identifier(<<"m">>), Identifier(<<"files", "nofile">>)>>
    /\ answer.error = "SqlApiException"
    /\ \E p \in predictors : p.name = "m" /\ p.project = database
    /\ "f" \in files

\* C16: DROP TABLE on a project-scope target requires the table to be
\* flagged deletable: with or without IF EXISTS, answer_drop_tables never
\* requests deletion of a project table that is not flagged deletable (and
\* never requests deletion of a name that is not a table of the project).
C16_OnlyDeletableRequested ==
    [][stmt'.kind = "DropTables" =>
         \A i \in 1..Len(calls') :
            calls'[i].op = "delete_model" =>
               calls'[i].name \in deletable_tables(calls'[i].project, predictors)]_vars

(***************************************************************************)
(* RETRAIN and FINETUNE: the ML handler and the hosted-mode guard          *)
(***************************************************************************)
\* USING clauses that do or do not name an engine
EngineClauses == {<<>>, [engine |-> "ml"], [ENGINE |-> "ml"]}

\* the training times, in minutes, the guard check can find: one per model
\* in training at most
TrainingTimes ==
    {T \in SUBSET {30, 60, 90} :
        Cardinality(T) <= Cardinality({p \in predictors : p.status = "training"})}

\* the session's mode and what the guard check finds when it runs
Environments ==
    {[cloud |-> c, user_class |-> u, training_times |-> T] :
        c \in BOOLEAN, u \in {0, 1}, T \in TrainingTimes}

\* RETRAIN m [USING engine = ...]
Retrain ==
    \E using \in EngineClauses, env \in Environments :
      LET statement == RetrainPredictorStmt(Identifier(<<"m">>), using)
      IN ModelStep(statement, "answer_retrain_predictor",
                   answer_retrain_predictor(statement, env))

\* FINETUNE m [USING engine = ...]
Finetune ==
    \E using \in EngineClauses, env \in Environments :
      LET statement == [kind |-> "FinetunePredictor", name |-> Identifier(<<"m">>),
                        using |-> using]
      IN ModelStep(statement, "answer_finetune_predictor",
                   answer_finetune_predictor(statement, env))

\* CREATE ML_ENGINE ml FROM byom
CreateEngine ==
    LET statement == [kind |-> "CreateMLEngine", name |-> Identifier(<<"ml">>),
                      handler |-> "byom"]
    IN IntegrationStep(statement, "answer_create_ml_engine",
                       answer_create_ml_engine(statement, "ok"))

\* DROP ML_ENGINE lightwood
DropEngine ==
    LET statement == [kind |-> "DropMLEngine", name |-> Identifier(<<"lightwood">>),
                      handler |-> NONE]
    IN IntegrationStep(statement, "answer_drop_ml_engine",
                       answer_drop_ml_engine("lightwood", integrations))

NextTraining ==
    \/ CreateModel
    \/ LearnProcess
    \/ CreateEngine
    \/ DropEngine
    \/ Retrain
    \/ Finetune

SpecTraining == Init /\ [][NextTraining]_vars

\* the last statement was a RETRAIN or a FINETUNE
Trained == stmt.kind \in {"RetrainPredictor", "FinetunePredictor"}

\* the handler the last statement passed to the model controller ({} when
\* the model controller was not called)
HandlerPassed ==
    {calls[i].ml_handler :
        i \in {j \in 1..Len(calls) : calls[j].op \in {"retrain_model", "finetune_model"}}}

\* the engine= entry of a USING clause ({} when it has none)
EngineGiven(using) ==
    {using[k] : k \in {x \in DOMAIN using : lower(x) = "engine"}}

\* C17: both RETRAIN and FINETUNE choose the ML handler the same way: the
\* handler named by an engine= entry of the USING clause when one is given,
\* otherwise the handler of the integration the model was originally
\* trained with; when no override is given and that integration no longer
\* exists the statement fails before the model controller is called.
C17_HandlerChosenAlike ==
    Trained =>
       /\ HandlerPassed # {} =>
             HandlerPassed = IF EngineGiven(stmt.using) # {}
                             THEN EngineGiven(stmt.using)
                             ELSE {"lightwood"}
       /\ (EngineGiven(stmt.using) = {} /\ "lightwood" \notin integration_names) =>
             answer.type = "ERROR" /\ HandlerPassed = {}

\* C18: in hosted mode (config cloud = true and user class 0), a RETRAIN or
\* FINETUNE whose guard check runs while some model is in status training
\* or generating with a start time, no stop time and less than one hour
\* elapsed is rejected with SqlApiException and the model controller is not
\* invoked; it is admitted when no such model exists, when every such
\* training has run one hour or more, or when not in hosted mode.
C18_HostedGuard ==
    (Trained /\ Len(calls) > 0 /\ calls[1].op = "_sync_predictor_check") =>
       LET env == calls[1].env
           young == \E t \in env.training_times : t < 60
       IN IF env.cloud /\ env.user_class = 0 /\ young
          THEN /\ answer.type = "ERROR"
               /\ answer.error = "SqlApiException"
               /\ HandlerPassed = {}
          ELSE HandlerPassed # {}

\* a hosted-mode RETRAIN was rejected while one model had been training for
\* 30 minutes and another for 90
C18_Witness ==
    /\ stmt.kind = "RetrainPredictor"
    /\ Len(calls) = 1
    /\ calls[1].op = "_sync_predictor_check"
    /\ calls[1].env.cloud
    /\ calls[1].env.training_times = {30, 90}
    /\ answer.error = "SqlApiException"

(***************************************************************************)
(* Delete, Insert, Update and Select: the mindsdb restriction and the      *)
(* knowledge bases                                                         *)
(***************************************************************************)
\* the statement execute_command was given reads or writes a table
HasTargetTable ==
    /\ stmt.kind \in KindsWithTable \cup {"Select"}
    /\ stmt.kind = "Select" => ~stmt.absent

\* the database of the statement's target table: the first part of a
\* qualified name, the session's default database otherwise
TargetDatabase ==
    IF Len(stmt.target) > 1 THEN stmt.target[1] ELSE database

\* the statement's target is the table of the model versions
OnModelsVersions == lower(Last(stmt.target)) = "models_versions"

\* C19: a DELETE statement (other than on models_versions or on a knowledge
\* base) whose target table is outside the "mindsdb" database is rejected
\* with ErBadTableError and is not executed by the query engine, whatever
\* the session default database is.
C19_DeleteOutsideMindsdbRejected ==
    (/\ stmt.kind = "Delete"
     /\ ~OnModelsVersions
     /\ ~stmt.is_knowledge_base
     /\ TargetDatabase # "mindsdb") =>
        /\ routine = "ErBadTableError"
        /\ answer.type = "ERROR"
        /\ answer.error = "ErBadTableError"

\* C20: every Delete, Insert, Update and Select statement whose target
\* table is a knowledge base is delegated to the knowledge-base
\* controller's execute_query and is never executed by the generic query
\* engine.
C20_KnowledgeBaseDelegated ==
    (HasTargetTable /\ stmt.is_knowledge_base /\ ~OnModelsVersions) =>
        routine = "kb_controller.execute_query"

(***************************************************************************)
(* Dropping and updating jobs, triggers, chatbots, knowledge bases, skills *)
(* and agents                                                              *)
(***************************************************************************)
\* the message of a controller that misses the entity it is to change
missing_message(name) == CASE name = "e" -> "e does not exist"

\* the entities of that kind and name the project holds
entity_records(kind, name, project_name) ==
    {e \in entities : /\ e.kind = kind /\ e.name = name
                      /\ e.project \in ProjectController_get(project_name)}

\* <Controller>.delete(name, project_name): the project and the entity must
\* exist
controller_delete(kind, name, project_name) ==
    IF ProjectController_get(project_name) = {}
    THEN [err |-> "ValueError", msg |-> "Project not found", entities |-> entities]
    ELSE IF entity_records(kind, name, project_name) = {}
    THEN [err |-> "ValueError", msg |-> missing_message(name), entities |-> entities]
    ELSE [err |-> NONE, msg |-> NONE,
          entities |-> entities \ entity_records(kind, name, project_name)]

\* <Controller>.update(name, project_name, ...): the project and the entity
\* must exist; the attributes it changes are not on record here
controller_update(kind, name, project_name) ==
    IF ProjectController_get(project_name) = {}
    THEN [err |-> "ValueError", msg |-> "Project not found", entities |-> entities]
    ELSE IF entity_records(kind, name, project_name) = {}
    THEN [err |-> "ValueError", msg |-> missing_message(name), entities |-> entities]
    ELSE [err |-> NONE, msg |-> NONE, entities |-> entities]

\* name.parts[-2] if len(name.parts) > 1 else self.session.database
project_before_name(name) ==
    IF Len(name.parts) > 1 THEN name.parts[Len(name.parts) - 1] ELSE database

\* statement.name.parts[0] if len(statement.name.parts) > 1 else
\* self.session.database
project_first_part(name) ==
    IF Len(name.parts) > 1 THEN name.parts[1] ELSE database

\* a handler that passes on what the controller raises
unguarded(op, r) ==
    [answer |-> IF r.err # NONE THEN Raise(r.err, r.msg) ELSE AnswerOK,
     entities |-> r.entities, calls |-> controller_call(op, r)]

\* a handler that catches the controller's ValueError and raises
\* SqlApiException(str(e))
guarded(op, r) ==
    [answer |-> IF r.err = "ValueError" THEN Raise("SqlApiException", r.msg)
                ELSE IF r.err # NONE THEN Raise(r.err, r.msg) ELSE AnswerOK,
     entities |-> r.entities, calls |-> controller_call(op, r)]

\* answer_drop_trigger
answer_drop_trigger(statement) ==
    unguarded("delete", controller_delete("trigger", Last(statement.name.parts),
                                          project_before_name(statement.name)))

\* answer_drop_job
answer_drop_job(statement) ==
    unguarded("delete", controller_delete("job", Last(statement.name.parts),
                                          project_before_name(statement.name)))

\* answer_drop_chatbot
answer_drop_chatbot(statement) ==
    unguarded("delete", controller_delete("chatbot", Last(statement.name.parts),
                                          project_before_name(statement.name)))

\* ChatBotController.update_chatbot: None, here the error "None found",
\* when the project holds no such chatbot
update_chatbot(name, project_name) ==
    IF ProjectController_get(project_name) = {}
    THEN [err |-> "ValueError", msg |-> "Project not found", entities |-> entities]
    ELSE IF entity_records("chatbot", name, project_name) = {}
    THEN [err |-> "None found", msg |-> NONE, entities |-> entities]
    ELSE [err |-> NONE, msg |-> NONE, entities |-> entities]

\* answer_update_chatbot, of a statement that sets no database
answer_update_chatbot(statement) ==
    LET r == update_chatbot(Last(statement.name.parts),
                            project_before_name(statement.name))
    IN [answer |-> IF r.err = "None found"
                   THEN Raise("SqlApiException", "Chatbot not found")
                   ELSE IF r.err # NONE THEN Raise(r.err, r.msg) ELSE AnswerOK,
        entities |-> r.entities,
        calls |-> IF r.err = "None found" THEN <<>> ELSE controller_call("update", r)]

\* anwser_drop_kb
anwser_drop_kb(statement) ==
    IF ProjectController_get(project_first_part(statement.name)) = {}
    THEN [answer |-> Raise("SqlApiException", "Project not found"),
          entities |-> entities, calls |-> <<>>]
    ELSE IF /\ statement.if_exists
            /\ entity_records("kb", Last(statement.name.parts),
                              project_first_part(statement.name)) = {}
    THEN [answer |-> AnswerOK, entities |-> entities, calls |-> <<>>]
    ELSE unguarded("delete", controller_delete("kb", Last(statement.name.parts),
                                               project_first_part(statement.name)))

\* answer_drop_skill
answer_drop_skill(statement) ==
    guarded("delete", controller_delete("skill", Last(statement.name.parts),
                                        project_first_part(statement.name)))

\* answer_update_skill
answer_update_skill(statement) ==
    guarded("update", controller_update("skill", Last(statement.name.parts),
                                        project_first_part(statement.name)))

\* answer_drop_agent
answer_drop_agent(statement) ==
    guarded("delete", controller_delete("agent", Last(statement.name.parts),
                                        project_first_part(statement.name)))

\* answer_update_agent
answer_update_agent(statement) ==
    guarded("update", controller_update("agent", Last(statement.name.parts),
                                        project_first_part(statement.name)))

\* the statements that drop or update an entity and name nothing else
EntityChanges ==
    {"DropTrigger", "DropJob", "DropChatBot", "UpdateChatBot", "DropSkill",
     "UpdateSkill", "DropAgent", "UpdateAgent"}

\* the answer of the handler of a statement of EntityChanges
entity_change(statement) ==
    CASE statement.kind = "DropTrigger" -> answer_drop_trigger(statement)
      [] statement.kind = "DropJob" -> answer_drop_job(statement)
      [] statement.kind = "DropChatBot" -> answer_drop_chatbot(statement)
      [] statement.kind = "UpdateChatBot" -> answer_update_chatbot(statement)
      [] statement.kind = "DropSkill" -> answer_drop_skill(statement)
      [] statement.kind = "UpdateSkill" -> answer_update_skill(statement)
      [] statement.kind = "DropAgent" -> answer_drop_agent(statement)
      [] statement.kind = "UpdateAgent" -> answer_update_agent(statement)

\* DROP or UPDATE of a trigger, job, chatbot, skill or agent
ChangeEntity ==
    \E kind \in EntityChanges, name \in EntityIdentifiers :
      LET statement == [kind |-> kind, name |-> name]
      IN EntityStep(statement, execute_command(statement, {}), entity_change(statement))

\* DROP KNOWLEDGE_BASE [IF EXISTS] name
DropKnowledgeBase ==
    \E name \in EntityIdentifiers, if_exists \in BOOLEAN :
      LET statement == [kind |-> "DropKnowledgeBase", name |-> name,
                        if_exists |-> if_exists]
      IN EntityStep(statement, "anwser_drop_kb", anwser_drop_kb(statement))

NextEntities ==
    \/ CreateProject
    \/ CreatePostgres
    \/ CreateModel
    \/ CreateTrigger
    \/ CreateJob
    \/ CreateChatBot
    \/ CreateKnowledgeBase
    \/ CreateSkill
    \/ CreateAgent
    \/ ChangeEntity
    \/ DropKnowledgeBase

SpecEntities == Init /\ [][NextEntities]_vars

\* the statements on jobs, triggers, chatbots, skills, agents and
\* knowledge bases
EntityStatements ==
    EntityChanges \cup {"CreateTrigger", "CreateJob", "CreateChatBot", "CreateSkill",
                        "CreateAgent", "CreateKnowledgeBase", "DropKnowledgeBase"}

\* C21: for every Create, Drop and Update statement on jobs, triggers,
\* chatbots, skills, agents and knowledge bases, a ValueError raised by the
\* owning controller reaches the caller as a SqlApiException carrying the
\* controller's message, never as a raw ValueError; in particular dropping
\* a knowledge base, skill or agent that does not exist without if_exists
\* raises such an error naming the missing entity.
C21_ValueErrorSurfaced ==
    (stmt.kind \in EntityStatements) =>
       \A i \in 1..Len(calls) :
          (calls[i].op \in {"add", "delete", "update"} /\ calls[i].raised = "ValueError") =>
             /\ answer.type = "ERROR"
             /\ answer.error = "SqlApiException"
             /\ answer.message = calls[i].msg

(***************************************************************************)
(* DESCRIBE                                                                *)
(***************************************************************************)
\* ModelController.describe_model: a table about the attribute of the model
\* (a list of one name stands for that name, the empty list for None)
describe_model(project_name, name, attribute) ==
    AnswerTable({[project |-> project_name, model |-> name, attribute |-> attribute]})

\* statement.value.parts.copy()[2:], the attribute when the first two parts
\* name the model
found_attribute(parts) == SubSeq(parts, 3, Len(parts))

\* the attribute taken as if the first two parts had named the model
fallback_attribute_two(parts) == SubSeq(parts, 3, Len(parts))

\* statement.value.parts.copy()[1:], the attribute when the first part alone
\* names the model
fallback_attribute(parts) == SubSeq(parts, 2, Len(parts))

\* answer_describe_predictor
answer_describe_predictor(statement) ==
    LET value == statement.value.parts
        parts == SubSeq(value, 1, IF Len(value) < 2 THEN Len(value) ELSE 2)
        model_info == _get_model_info(Identifier(parts))
    IN IF model_info.model_record # {}
       THEN [answer |-> describe_model(model_info.parts[1],
                           (CHOOSE p \in model_info.model_record : TRUE).name,
                           found_attribute(value)),
             predictors |-> predictors]
       ELSE IF Len(parts) = 1
       THEN \* parts.pop(-1) leaves no part: no model name is resolved
            [answer |-> Raise("Exception", "Model not found"), predictors |-> predictors]
       ELSE LET second == _get_model_info(Identifier(<<parts[1]>>)) IN
            IF second.model_record = {}
            THEN [answer |-> Raise("PredictorRecordNotFound", "Model not found"),
                  predictors |-> predictors]
            ELSE [answer |-> describe_model(second.parts[1],
                                (CHOOSE p \in second.model_record : TRUE).name,
                                fallback_attribute(value)),
                  predictors |-> predictors]

\* the names DESCRIBE is given
DescribeTargets ==
    {<<"m">>, <<"mindsdb", "m">>, <<"proj", "m">>, <<"m", "a">>, <<"mindsdb", "m", "a">>,
     <<"proj", "m", "a">>, <<"proj">>, <<"mindsdb", "proj">>, <<"mindsdb", "proj", "m">>,
     <<"x">>, <<"x", "a">>}

DescribeStep(statement) ==
    ModelStep(statement, "answer_describe_predictor", answer_describe_predictor(statement))

\* DESCRIBE name
Describe ==
    \E target \in DescribeTargets :
      DescribeStep([kind |-> "Describe", value |-> Identifier(target)])

\* CREATE MODEL mindsdb.proj: a model that has the name of a project
CreateModelNamedProj == CreatePredictorStep(CreatePredictorStmt(Identifier(<<"mindsdb", "proj">>)))

\* USE mindsdb, USE proj
UseProject == \E db \in ProjectNames : UseStep([kind |-> "Use", value |-> Identifier(<<db>>)])

NextDescribe ==
    \/ CreateProject
    \/ CreatePredictor
    \/ CreateModelNamedProj
    \/ UseProject
    \/ Describe

SpecDescribe == Init /\ [][NextDescribe]_vars

\* the active model of that name in the session's database, if any
SessionModel(name) == get_model_record(name, database, 0)

\* the first two parts of the name are a project and a model of it
QualifiedModel(target) ==
    IF Len(target) < 2 THEN {} ELSE get_model_record(target[2], target[1], 0)

\* what DESCRIBE answers when the name is written with the session's
\* database in front
QualifiedAnswer(target) ==
    (answer_describe_predictor([kind |-> "Describe",
                                value |-> Identifier(<<database>> \o target)])).answer

\* C22: DESCRIBE resolves its identifier by first trying the first two
\* parts as project.model and, only if no such model exists, treating the
\* first part as a model of the session default database and the remaining
\* parts as the attribute; so for a model m of the session's project p,
\* DESCRIBE p.m and DESCRIBE m give the same answer, DESCRIBE p.m.a and
\* DESCRIBE m.a give the same answer, and when no model is found either way
\* the statement raises an error instead of returning a table.
C22_DescribeResolution ==
    stmt.kind = "Describe" =>
       /\ (Len(stmt.target) <= 2 /\ SessionModel(stmt.target[1]) # {}) =>
             answer = QualifiedAnswer(stmt.target)
       /\ (QualifiedModel(stmt.target) = {} /\ SessionModel(stmt.target[1]) = {}) =>
             answer.type = "ERROR"

\* C22 amended: the same, except that DESCRIBE m.a describes the model a
\* of a project named m when there is one
C22_DescribeResolutionUnlessProject ==
    stmt.kind = "Describe" =>
       /\ (/\ Len(stmt.target) <= 2
           /\ SessionModel(stmt.target[1]) # {}
           /\ QualifiedModel(stmt.target) = {}) =>
             answer = QualifiedAnswer(stmt.target)
       /\ QualifiedModel(stmt.target) # {} =>
             /\ answer.type = "TABLE"
             /\ \A r \in answer.data :
                   /\ r.project = stmt.target[1] /\ r.model = stmt.target[2]
                   /\ r.attribute = found_attribute(stmt.target)
       /\ (QualifiedModel(stmt.target) = {} /\ SessionModel(stmt.target[1]) = {}) =>
             answer.type = "ERROR"

\* DESCRIBE m.a was answered with attribute a of the session's model m
C22_Witness ==
    /\ stmt.kind = "Describe"
    /\ stmt.target = <<"m", "a">>
    /\ answer.type = "TABLE"
    /\ answer.data = {[project |-> database, model |-> "m", attribute |-> <<"a">>]}

(***************************************************************************)
(* Execution contexts                                                      *)
(***************************************************************************)
\* Project.query_view(query): the stored views the query names ({} stands
\* for its exception)
query_view(project, query) ==
    {v \in views : v.project = project /\ v.name = query.from_table.parts[1]}

\* ProjectDataNode.query on a table that is not catalog-backed: the view's
\* query is executed inside the 'view' context; nested is the outcome of
\* that execution (success, success = False, an exception)
ProjectDataNode_query_view(project, query, nested) ==
    IF query_view(project, query) = {}
    THEN [err |-> "EntityNotExistsError", data |-> {}, calls |-> <<>>]
    ELSE LET view_meta == CHOOSE v \in query_view(project, query) : TRUE IN
         [err |-> IF nested = "ok" THEN NONE ELSE "Exception",
          data |-> {},
          calls |-> context_calls("view", <<view_meta.project, view_meta.name>>,
                                  nested_fetch(0, nested = "ok", nested = "raise"))]

\* SELECT * FROM project.table, table no catalog-backed table
SelectViewStep(project, table, r, nested) ==
    /\ execute_command([kind |-> "Select", from_table |-> Identifier(<<project, table>>),
                        is_knowledge_base |-> FALSE], {}) = "answer_select"
    /\ routine' = "answer_select"
    /\ answer' = IF r.err # NONE THEN Raise(r.err, NONE) ELSE AnswerTable(r.data)
    /\ calls' = r.calls
    /\ stmt' = [kind |-> "Select", target |-> <<project, table>>, nested |-> nested]
    /\ UNCHANGED <<handler_vars, views, files, projects, integrations, predictors, entities, database>>

SelectView ==
    \E project \in projects, table \in {"v", "w"}, nested \in {"ok", "fail", "raise"} :
      SelectViewStep(project, table,
                     ProjectDataNode_query_view(project,
                        Select(<<Star>>, Identifier(<<table>>), NoWhere), nested),
                     nested)

NextContexts ==
    \/ CreateProject
    \/ CreatePostgres
    \/ CreateViewAs
    \/ CreateViewFrom
    \/ SelectView

SpecContexts == Init /\ [][NextContexts]_vars

\* the positions after position i of calls at which the context taken at i
\* is released
ReleasesOf(i) ==
    {j \in (i + 1)..Len(calls) :
        /\ calls[j].op = "release_context"
        /\ calls[j].kind = calls[i].kind
        /\ calls[j].id = calls[i].id}

\* C23: the 'view' execution context taken by ProjectDataNode.query and the
\* 'ignore' execution context taken by CREATE VIEW are released on every
\* exit path: whenever either operation returns or raises (nested query
\* raising, nested query reporting success = false, or success), every
\* context it acquired has been released exactly once with the same kind
\* and id, and no context is acquired when the operation fails before the
\* nested query is prepared.
C23_ContextsReleased ==
    (stmt.kind = "CreateView" \/ (stmt.kind = "Select" /\ "nested" \in DOMAIN stmt)) =>
       /\ \A i \in 1..Len(calls) :
             calls[i].op = "set_context" => Cardinality(ReleasesOf(i)) = 1
       /\ Cardinality({j \in 1..Len(calls) : calls[j].op = "release_context"})
             = Cardinality({i \in 1..Len(calls) : calls[i].op = "set_context"})
       /\ (\A i \in 1..Len(calls) : calls[i].op # "SQLQuery.fetch") =>
             \A i \in 1..Len(calls) : calls[i].op # "set_context"

\* a query on a stored view whose nested query raised: the 'view' context
\* was taken and released
C23_Witness ==
    /\ stmt.kind = "Select"
    /\ "nested" \in DOMAIN stmt
    /\ stmt.nested = "raise"
    /\ answer.type = "ERROR"
    /\ Len(calls) = 3
    /\ calls[1] = [op |-> "set_context", kind |-> "view", id |-> stmt.target]
    /\ calls[3] = [op |-> "release_context", kind |-> "view", id |-> stmt.target]

(***************************************************************************)
(* Concurrent RETRAIN and FINETUNE in hosted mode                          *)
(***************************************************************************)
\* bound: the time, in half hours, up to which the clock runs
MaxClock == 3

\* bound: the number of versions of the model on record at once
MaxTrainings == 3

\* a reading of the model records that finds no training
training_times_none == {}

\* get_model_records(active=None) as _sync_predictor_check reads it: now -
\* training_start_at, in minutes, of the versions in status training or
\* generating that have a start time (and no stop time: a version that
\* stopped has left those statuses)
training_times_now ==
    {(clock - training_start_at[p.version].at) * 30 :
        p \in {q \in predictors : /\ q.status \in {"training", "generating"}
                                  /\ q.version \in DOMAIN training_start_at}}

\* the hosted mode: config cloud = true, user class 0
Hosted == [cloud |-> TRUE, user_class |-> 0, training_times |-> training_times_now]

\* answer_retrain_predictor / answer_finetune_predictor of session s up to
\* and including self._sync_predictor_check(phase_name)
GuardStep(s, statement, phase_name) ==
    /\ sessions[s].pc = "idle"
    /\ (_get_model_info(statement.name)).model_record # {}
    /\ get_predictor_integration({}) # {}
    /\ routine' = execute_command(statement, {})
    /\ stmt' = [kind |-> statement.kind, target |-> statement.name.parts, session |-> s]
    /\ calls' = <<[op |-> "_sync_predictor_check", env |-> Hosted]>>
    /\ IF _sync_predictor_check(Hosted)
       THEN /\ answer' = Raise("SqlApiException", "Can't start process")
            /\ sessions' = sessions
       ELSE /\ answer' = answer
            /\ sessions' = [sessions EXCEPT ![s] = [pc |-> phase_name, checked_at |-> clock]]
    /\ UNCHANGED <<projects, integrations, predictors, entities, database, views, files,
                   clock, training_start_at, engine_storage, model_wrapper,
                   byom_type, finetune_records>>

\* session s issues RETRAIN m or FINETUNE m
Guard ==
    \E s \in Sessions :
       \/ GuardStep(s, [kind |-> "RetrainPredictor", name |-> Identifier(<<"m">>),
                        using |-> <<>>], "retrain_model")
       \/ GuardStep(s, [kind |-> "FinetunePredictor", name |-> Identifier(<<"m">>),
                        using |-> <<>>], "finetune_model")

\* the rest of the handler of session s: the call of
\* model_controller.retrain_model or finetune_model, which starts the
\* training of one more version
StartStep(s, r) ==
    /\ sessions[s].pc \in {"retrain_model", "finetune_model"}
    /\ Cardinality(r.predictors) <= MaxTrainings
    /\ \A p \in r.predictors : p.version <= MaxVersion
    /\ predictors' = r.predictors
    /\ training_start_at' =
          [v \in DOMAIN training_start_at \cup {p.version : p \in r.predictors \ predictors} |->
              IF v \in DOMAIN training_start_at THEN training_start_at[v]
              ELSE [at |-> clock, checked_at |-> sessions[s].checked_at]]
    /\ sessions' = [sessions EXCEPT ![s] = [pc |-> "idle", checked_at |-> 0]]
    /\ answer' = IF r.err # NONE THEN Raise(r.err, r.msg) ELSE AnswerTable({})
    /\ calls' = <<[op |-> sessions[s].pc, ml_handler |-> "lightwood"]>>
    /\ stmt' = [kind |-> sessions[s].pc, target |-> <<"m">>, session |-> s]
    /\ routine' = sessions[s].pc
    /\ UNCHANGED <<projects, integrations, entities, database, views, files, clock,
                   engine_storage, model_wrapper, byom_type, finetune_records>>

Start == \E s \in Sessions : StartStep(s, retrain_model("mindsdb", "m", TRUE))

\* half an hour passes
Tick ==
    /\ clock < MaxClock
    /\ clock' = clock + 1
    /\ UNCHANGED <<projects, integrations, predictors, entities, database, stmt, routine,
                   answer, views, files, calls, sessions, training_start_at,
                   engine_storage, model_wrapper, byom_type, finetune_records>>

NextRace ==
    \/ CreateModel
    \/ LearnProcess
    \/ Guard
    \/ Start
    \/ Tick

SpecRace == Init /\ [][NextRace]_vars

\* the version is on record in status training
StillTraining(v) ==
    \E p \in predictors : p.version = v /\ p.status = "training"

\* C24: the training guard is an advisory admission check, not a lock: the
\* check in _sync_predictor_check and the start of training are not atomic
\* and the router takes no lock, so when two sessions in hosted mode issue
\* RETRAIN or FINETUNE concurrently while no training is running, both can
\* pass the guard and a state with two trainings started inside the same
\* one-hour window is reachable.  What the guard does ensure: a training
\* that starts less than one hour after another one that is still running
\* passed its check before that other one started.
C24_GuardIsAdvisory ==
    \A v, w \in DOMAIN training_start_at :
       (/\ v < w
        /\ StillTraining(v)
        /\ (training_start_at[w].at - training_start_at[v].at) * 30 < 60) =>
           training_start_at[w].checked_at <= training_start_at[v].at

\* two sessions passed the guard while no training was running and both
\* started a training at the same time
C24_Witness ==
    \E v, w \in DOMAIN training_start_at :
       /\ v # w
       /\ StillTraining(v) /\ StillTraining(w)
       /\ training_start_at[v].at = training_start_at[w].at
       /\ training_start_at[v].checked_at = training_start_at[w].checked_at
       /\ \A s \in Sessions : sessions[s].pc = "idle"

(***************************************************************************)
(* SHOW [FULL] COLUMNS                                                     *)
(***************************************************************************)
\* statement.modes = [x.upper() for x in statement.modes]
show_modes(modes) == {upper(x) : x \in modes}

\* is_full as the columns branch computes it from the modes execute_command
\* has upper-cased
is_full(modes) == "full" \in show_modes(modes)

\* the SELECT answer_show_columns builds (the statement has no WHERE and no
\* LIKE)
show_columns_statement(target, full) ==
    LET db == IF Len(target.parts) > 1 THEN target.parts[1]
              ELSE IF database # NONE THEN database ELSE "mindsdb"
        table_name == Last(target.parts)
        new_where ==
           BinaryOperation("and", <<
              BinaryOperation("=", <<Identifier(<<"TABLE_SCHEMA">>), Constant(db)>>),
              BinaryOperation("=", <<Identifier(<<"TABLE_NAME">>), Constant(table_name)>>)>>)
        targets ==
           <<IdentifierAs(<<"COLUMN_NAME">>, "Field"),
             IdentifierAs(<<"COLUMN_TYPE">>, "Type"),
             IdentifierAs(<<"IS_NULLABLE">>, "Null"),
             IdentifierAs(<<"COLUMN_KEY">>, "Key"),
             IdentifierAs(<<"COLUMN_DEFAULT">>, "Default"),
             IdentifierAs(<<"EXTRA">>, "Extra")>>
           \o (IF full
               THEN <<ConstantAs("COLLATION", "Collation"),
                      ConstantAs("PRIVILEGES", "Privileges"),
                      ConstantAs("COMMENT", "Comment")>>
               ELSE <<>>)
    IN Select(targets, Identifier(<<"information_schema", "COLUMNS">>), new_where)

\* answer_show_columns: the SELECT given to SQLQuery, and its answer
answer_show_columns(new_statement) ==
    [answer |-> answer_select(new_statement),
     calls |-> <<[op |-> "SQLQuery",
                  columns |-> [i \in 1..Len(new_statement.targets) |->
                                  OutName(new_statement.targets[i])]]>>]

ShowColumnsStep(statement, r) ==
    /\ execute_command(statement, {}) = "answer_show_columns"
    /\ routine' = "answer_show_columns"
    /\ answer' = r.answer
    /\ calls' = r.calls
    /\ stmt' = [kind |-> "Show", category |-> statement.category,
                target |-> statement.from_table.parts, modes |-> statement.modes]
    /\ UNCHANGED <<handler_vars, views, files, projects, integrations, predictors,
                   entities, database>>

\* SHOW [FULL] COLUMNS FROM t
ShowColumns ==
    \E parts \in {<<"information_schema", "TABLES">>, <<"files", "f">>, <<"models">>,
                  <<"mindsdb", "models">>},
       modes \in {{}, {"full"}, {"FULL"}} :
      LET statement == [kind |-> "Show", category |-> "columns",
                        from_table |-> Identifier(parts), modes |-> modes,
                        like |-> NONE, where |-> NoWhere]
      IN ShowColumnsStep(statement,
            answer_show_columns(show_columns_statement(statement.from_table,
                                                       is_full(statement.modes))))

NextColumns ==
    \/ CreateProject
    \/ CreateModel
    \/ Use
    \/ ShowColumns

SpecColumns == Init /\ [][NextColumns]_vars

SixColumns == <<"Field", "Type", "Null", "Key", "Default", "Extra">>

\* C25: SHOW FULL COLUMNS FROM t returns, in addition to the six columns
\* Field, Type, Null, Key, Default, Extra that SHOW COLUMNS returns, the
\* three columns Collation, Privileges and Comment; SHOW COLUMNS without
\* FULL returns only the six.
C25_FullColumns ==
    (stmt.kind = "Show" /\ routine = "answer_show_columns") =>
       LET columns == IF stmt.modes = {} THEN SixColumns
                      ELSE SixColumns \o <<"Collation", "Privileges", "Comment">>
       IN /\ calls[1].columns = columns
          /\ \A r \in answer.data : DOMAIN r = Range(columns)

(***************************************************************************)
(* Predicate pushdown in the TABLES producer                               *)
(***************************************************************************)
\* the rows the WHERE of the last TABLES query keeps of the full TABLES row
\* set, the one _get_tables produces for a query without WHERE
FilteredFullTables ==
    (frame_query("TABLES",
                 dataframe("TABLES",
                           Select(<<Star>>, Identifier(<<"TABLES">>), NoWhere)),
                 Select(<<Star>>, Identifier(<<"TABLES">>),
                        SchemaWhere(stmt.form, stmt.schema)))).data

\* C26: predicate pushdown in the TABLES producer is transparent: for every
\* constant s (a project name, an integration name, 'files',
\* 'information_schema', or a virtual table name such as 'TABLES'), a
\* TABLES query whose WHERE is a top-level AND containing TABLE_SCHEMA = s
\* returns the same rows as applying that same WHERE to the full,
\* un-pushed-down TABLES row set; pushdown never drops a row the filter
\* would keep.
C26_PushdownTransparent ==
    (/\ stmt.kind = "Select" /\ routine = "answer_select"
     /\ stmt.form \in {"first conjunct", "second conjunct"}) =>
        /\ answer.type = "TABLE"
        /\ answer.data = FilteredFullTables

(***************************************************************************)
(* CREATE KNOWLEDGE_BASE and the integration registry                      *)
(***************************************************************************)
\* C27: a CREATE KNOWLEDGE_BASE statement that raises an error (model not
\* found, malformed storage name, storage database not found, creation
\* from a select not supported, or the knowledge-base controller rejecting
\* the add) leaves the integration registry as it was before the
\* statement: no default vector-store integration created for the
\* knowledge base during the statement remains registered.
C27_FailedCreateKbKeepsRegistry ==
    [][(stmt'.kind = "CreateKnowledgeBase" /\ answer'.type = "ERROR")
          => integrations' = integrations]_vars

(***************************************************************************)
(* BYOM handler (mindsdb.integrations.handlers.byom_handler)               *)
(***************************************************************************)
\* bound: the highest engine version update_engine registers
MaxEngineVersion == 3

\* contents of a code file; "bad" is code that raises when it is imported
Codes == {"a", "b", "bad"}

\* contents of a requirements file
Requirements == {"r"}

\* the values of using.engine_version and predict_params.engine_version
NoneVersion == [type |-> "NoneType"]

IntVersion(n) == [type |-> "int", value |-> n]

StrVersion(s) == [type |-> "str", text |-> s]

EngineVersionArgs ==
    {NoneVersion} \cup {IntVersion(n) : n \in 1..MaxEngineVersion}
       \cup {StrVersion("x")}

\* int(x) of a string: the set holding the number, empty when int raises
\* ValueError
int(x) ==
    CASE x = "1" -> {1}
      [] x = "2" -> {2}
      [] x = "3" -> {3}
      [] x = "4" -> {4}
      [] OTHER -> {}

\* str(n) of a number, as an f-string formats it
str(n) ==
    CASE n = 1 -> "1"
      [] n = 2 -> "2"
      [] n = 3 -> "3"
      [] n = 4 -> "4"
      [] OTHER -> "?"

\* BYOMHandler.normalize_engine_version
normalize_engine_version(engine_version) ==
    IF engine_version.type = "str"
    THEN IF int(engine_version.text) = {} THEN 1 ELSE Max(int(engine_version.text))
    ELSE IF engine_version.type = "int" THEN engine_version.value ELSE 1

\* BYOMHandler.create_validation: using['engine_version'] as it leaves the
\* validation. A given value stays as the user wrote it (the normalised
\* value is not stored back); a missing one becomes the highest registered
\* version, or 1 when the connection args hold no versions
create_validation(engine_version, storage) ==
    IF engine_version.type # "NoneType" THEN engine_version
    ELSE IF storage.versions # {}
         THEN IntVersion(Max(UNION {int(x) : x \in storage.versions}))
         ELSE IntVersion(1)

\* fileStorage.file_set(key, content)
file_set(storage_files, key, content) ==
    [k \in DOMAIN storage_files \cup {key} |->
        IF k = key THEN content ELSE storage_files[k]]

\* f'{version}'
version_text(version) ==
    IF version.type = "int" THEN str(version.value) ELSE version.text

\* version_mark of _get_model_proxy; int(version) has not raised
version_mark(version) ==
    IF /\ version.type # "NoneType"
       /\ (IF version.type = "int" THEN version.value ELSE Max(int(version.text))) > 1
    THEN "_" \o version_text(version)
    ELSE ""

\* WrapperClass(code, modules_str, engine_id): ModelWrapperUnsafe imports
\* the code in __init__; ModelWrapperSafe keeps it and prepares the venv
\* env_<engine_id>, which all versions of the engine share
WrapperClass(type, code, modules_str, storage) ==
    IF type = "UNSAFE"
    THEN IF code = "bad"
         THEN [err |-> "Exception", msg |-> "import failed", wrapper |-> {},
               venv |-> storage.venv]
         ELSE [err |-> NONE, msg |-> NONE, venv |-> storage.venv,
               wrapper |-> {[class |-> "ModelWrapperUnsafe", code |-> code,
                             modules |-> modules_str]}]
    ELSE [err |-> NONE, msg |-> NONE, venv |-> TRUE,
          wrapper |-> {[class |-> "ModelWrapperSafe", code |-> code,
                        modules |-> modules_str]}]

\* BYOMHandler._get_model_proxy(version) on a handler whose model_wrapper is
\* wrapper: what it raises or returns, self.model_wrapper and the venv
\* after the call
_get_model_proxy(storage, wrapper, type, version) ==
    IF version.type = "str" /\ int(version.text) = {}
    THEN [err |-> "ValueError", msg |-> "invalid literal for int()", returned |-> {},
          model_wrapper |-> wrapper, venv |-> storage.venv]
    ELSE IF ~ {"code" \o version_mark(version), "modules" \o version_mark(version)}
                 \subseteq DOMAIN storage.files
    THEN [err |-> "Exception", msg |-> "Engine version does not exists", returned |-> {},
          model_wrapper |-> wrapper, venv |-> storage.venv]
    ELSE IF wrapper = {}
    THEN LET w == WrapperClass(type, storage.files["code" \o version_mark(version)],
                               storage.files["modules" \o version_mark(version)], storage)
         IN  [err |-> w.err, msg |-> w.msg, returned |-> w.wrapper,
              model_wrapper |-> w.wrapper, venv |-> w.venv]
    ELSE [err |-> NONE, msg |-> NONE, returned |-> wrapper, model_wrapper |-> wrapper,
          venv |-> storage.venv]

\* the record of one _get_model_proxy call
proxy_call(version, p) ==
    <<[op |-> "_get_model_proxy", version |-> version, raised |-> p.err, msg |-> p.msg,
       returned |-> p.returned]>>

\* model_proxy.check(): ModelWrapperUnsafe.check passes; ModelWrapperSafe
\* runs the code in the venv
check(returned) ==
    \A w \in returned : w.class = "ModelWrapperSafe" => w.code # "bad"

\* the except branch of create_engine and update_engine: after
\* model_proxy.remove_venv() the exception is raised again
check_model_proxy(storage, version, p) ==
    IF p.err # NONE
    THEN [err |-> p.err, msg |-> p.msg, model_wrapper |-> p.model_wrapper,
          storage |-> [storage EXCEPT !.venv = p.venv], calls |-> proxy_call(version, p)]
    ELSE IF ~ check(p.returned)
    THEN [err |-> "RuntimeError", msg |-> "check failed", model_wrapper |-> p.model_wrapper,
          storage |-> [storage EXCEPT !.venv = FALSE], calls |-> proxy_call(version, p)]
    ELSE [err |-> NONE, msg |-> NONE, model_wrapper |-> p.model_wrapper,
          storage |-> [storage EXCEPT !.venv = p.venv], calls |-> proxy_call(version, p)]

\* BYOMHandler.create_engine(connection_args)
create_engine(storage, wrapper, type, code, modules) ==
    LET stored == [storage EXCEPT
                      !.files = file_set(file_set(storage.files, "code", code),
                                         "modules", modules),
                      !.versions = {"1"}]
    IN  check_model_proxy(stored, NoneVersion,
                          _get_model_proxy(stored, wrapper, type, NoneVersion))

\* connection_args of update_engine: args without 'handler_version' count
\* as one version '1'
registered_versions(storage) ==
    IF storage.versions = {} THEN {"1"} ELSE storage.versions

\* new_version of update_engine
new_version(storage) ==
    str(Max(UNION {int(x) : x \in registered_versions(storage)}) + 1)

\* BYOMHandler.update_engine(connection_args)
update_engine(storage, wrapper, type, code, modules) ==
    LET stored == [storage EXCEPT
                      !.files = file_set(file_set(storage.files,
                                                  "code_" \o new_version(storage), code),
                                         "modules_" \o new_version(storage), modules),
                      !.versions = registered_versions(storage)
                                      \cup {new_version(storage)}]
    IN  check_model_proxy(stored, StrVersion(new_version(storage)),
                          _get_model_proxy(stored, wrapper, type,
                                           StrVersion(new_version(storage))))

\* BYOMHandler.get_model_engine_version: the engine version in the learn
\* args of the model, normalised
get_model_engine_version(record) ==
    IntVersion(normalize_engine_version(record.engine_version))

\* a call of the user's code through the wrapper _get_model_proxy returned:
\* run is whether that code raises
use_model_proxy(storage, version, p, run) ==
    [err |-> IF p.err # NONE THEN p.err ELSE IF run = "raise" THEN "Exception" ELSE NONE,
     msg |-> IF p.err # NONE THEN p.msg ELSE IF run = "raise" THEN "model code raised"
             ELSE NONE,
     used |-> IF p.err # NONE THEN {} ELSE p.returned,
     model_wrapper |-> p.model_wrapper,
     storage |-> [storage EXCEPT !.venv = p.venv],
     calls |-> proxy_call(version, p)]

\* BYOMHandler.create(target, df, args)
create(storage, wrapper, type, engine_version, run) ==
    use_model_proxy(storage, engine_version,
                    _get_model_proxy(storage, wrapper, type, engine_version), run)

\* engine_version of predict: int(predict_params.engine_version) when it
\* is given, else the model's version; empty when int raises ValueError
predict_engine_version(record, engine_version) ==
    IF engine_version.type = "NoneType" THEN {get_model_engine_version(record)}
    ELSE IF engine_version.type = "int" THEN {engine_version}
    ELSE {IntVersion(n) : n \in int(engine_version.text)}

\* BYOMHandler.predict(df, args)
predict(storage, wrapper, type, record, engine_version, run) ==
    IF predict_engine_version(record, engine_version) = {}
    THEN [err |-> "ValueError", msg |-> "invalid literal for int()", used |-> {},
          model_wrapper |-> wrapper, storage |-> storage, calls |-> <<>>]
    ELSE LET version == CHOOSE v \in predict_engine_version(record, engine_version) : TRUE
         IN  use_model_proxy(storage, version,
                             _get_model_proxy(storage, wrapper, type, version), run)

\* BYOMHandler.describe(attribute)
describe(storage, wrapper, type, record, run) ==
    use_model_proxy(storage, get_model_engine_version(record),
                    _get_model_proxy(storage, wrapper, type,
                                     get_model_engine_version(record)), run)

\* the try block of BYOMHandler.finetune
finetune_try(records, storage, wrapper, type, predictor_id, args, run) ==
    IF records[args.base_model_id].status # "complete"
    THEN [err |-> "Exception", msg |-> "Base model must be in status 'complete'",
          records |-> records, model_wrapper |-> wrapper, storage |-> storage,
          calls |-> <<>>]
    ELSE LET started == [records EXCEPT
                            ![predictor_id].data = [training_log |-> "training"],
                            ![predictor_id].training_start_at = {clock},
                            ![predictor_id].status = "finetuning"]
             r == use_model_proxy(storage, args.using.engine_version,
                                  _get_model_proxy(storage, wrapper, type,
                                                   args.using.engine_version), run)
         IN  [err |-> r.err, msg |-> r.msg, model_wrapper |-> r.model_wrapper,
              storage |-> r.storage, calls |-> r.calls,
              records |-> IF r.err # NONE THEN started
                          ELSE [started EXCEPT
                                   ![predictor_id].update_status = "up_to_date",
                                   ![predictor_id].status = "complete",
                                   ![predictor_id].training_stop_at = {clock}]]

\* an except block that only raises the exception again
finetune_except_raise(r, predictor_id) == r

\* the except block of BYOMHandler.finetune
finetune_except(r, predictor_id) ==
    IF r.err = NONE THEN r
    ELSE [r EXCEPT !.records[predictor_id].data = [error |-> r.msg],
                   !.records[predictor_id].status = "error"]

\* the finally block of BYOMHandler.finetune
finetune_finally(r, predictor_id) ==
    IF r.records[predictor_id].training_stop_at # {} THEN r
    ELSE [r EXCEPT !.records[predictor_id].training_stop_at = {clock}]

\* BYOMHandler.finetune(df, args) of the handler whose model storage is
\* that of predictor_id
finetune(records, storage, wrapper, type, predictor_id, args, run) ==
    finetune_finally(
        finetune_except(
            finetune_try(records, storage, wrapper, type, predictor_id, args, run),
            predictor_id),
        predictor_id)

\* the id of the base model and of the model a FINETUNE trains
BaseModelId == "base"

FinetunedModelId == "finetuned"

\* the db.Predictor record the model controller hands to the handler
new_record(engine_version, update_status) ==
    [status |-> "generating", update_status |-> update_status,
     data |-> [training_log |-> NONE], training_start_at |-> {}, training_stop_at |-> {},
     engine_version |-> engine_version]

\* the engine the handler serves was created
EngineCreated ==
    /\ engine_storage.versions # {}
    /\ ~ (stmt.kind = "create_engine" /\ answer.type = "ERROR")

\* a method of the handler ran with result r
HandlerStep(kind, r, records) ==
    /\ stmt' = [kind |-> kind, target |-> <<>>]
    /\ routine' = kind
    /\ answer' = IF r.err # NONE THEN Raise(r.err, r.msg)
                 ELSE IF "used" \in DOMAIN r THEN AnswerTable(r.used) ELSE AnswerOK
    /\ calls' = r.calls
    /\ engine_storage' = r.storage
    /\ model_wrapper' = r.model_wrapper
    /\ finetune_records' = records
    /\ UNCHANGED <<projects, integrations, predictors, entities, database, views, files,
                   sessions, clock, training_start_at>>

\* BYOMHandler.__init__: one more handler instance of the engine
HandlerInit ==
    /\ model_wrapper # {}
    /\ HandlerStep("__init__", [err |-> NONE, msg |-> NONE, calls |-> <<>>,
                                storage |-> engine_storage, model_wrapper |-> {}],
                   finetune_records)
    /\ UNCHANGED byom_type

\* CREATE ML_ENGINE ... FROM byom: a handler of a new engine, under either
\* MINDSDB_BYOM_TYPE, runs create_engine
HandlerCreateEngine ==
    /\ ~ EngineCreated
    /\ \E type \in {"UNSAFE", "SAFE"}, code \in Codes, modules \in Requirements :
          /\ byom_type' = type
          /\ HandlerStep("create_engine",
                         create_engine([files |-> <<>>, versions |-> {}, venv |-> FALSE],
                                       {}, type, code, modules),
                         <<>>)

\* UPDATE of the engine: update_engine
HandlerUpdateEngine ==
    /\ EngineCreated
    /\ Cardinality(engine_storage.versions) < MaxEngineVersion
    /\ \E code \in Codes, modules \in Requirements :
          HandlerStep("update_engine",
                      update_engine(engine_storage, model_wrapper, byom_type, code, modules),
                      finetune_records)
    /\ UNCHANGED byom_type

\* the record of the base model once the learn process ran create_validation
\* and create: complete when create returned, error when it raised
created_record(engine_version, r) ==
    [new_record(engine_version, "up_to_date") EXCEPT
        !.status = IF r.err # NONE THEN "error" ELSE "complete",
        !.data = IF r.err # NONE THEN [error |-> r.msg] ELSE [training_log |-> NONE],
        !.training_start_at = {clock}, !.training_stop_at = {clock}]

HandlerCreateStep(engine_version, r) ==
    HandlerStep("create", r, (BaseModelId :> created_record(engine_version, r)))

\* CREATE MODEL ... USING engine = the BYOM engine
HandlerCreate ==
    /\ EngineCreated
    /\ DOMAIN finetune_records = {}
    /\ \E engine_version \in EngineVersionArgs, run \in {"ok", "raise"} :
          HandlerCreateStep(create_validation(engine_version, engine_storage),
                            create(engine_storage, model_wrapper, byom_type,
                                   create_validation(engine_version, engine_storage), run))
    /\ UNCHANGED byom_type

\* a prediction of the base model
HandlerPredict ==
    /\ EngineCreated
    /\ BaseModelId \in DOMAIN finetune_records
    /\ finetune_records[BaseModelId].status = "complete"
    /\ \E engine_version \in EngineVersionArgs, run \in {"ok", "raise"} :
          HandlerStep("predict",
                      predict(engine_storage, model_wrapper, byom_type,
                              finetune_records[BaseModelId], engine_version, run),
                      finetune_records)
    /\ UNCHANGED byom_type

\* DESCRIBE of the base model
HandlerDescribe ==
    /\ EngineCreated
    /\ BaseModelId \in DOMAIN finetune_records
    /\ finetune_records[BaseModelId].status = "complete"
    /\ \E run \in {"ok", "raise"} :
          HandlerStep("describe",
                      describe(engine_storage, model_wrapper, byom_type,
                               finetune_records[BaseModelId], run),
                      finetune_records)
    /\ UNCHANGED byom_type

HandlerFinetuneStep(r) == HandlerStep("finetune", r, r.records)

\* FINETUNE of the base model: the model controller records one more
\* predictor and the handler of that predictor runs finetune
HandlerFinetune ==
    /\ EngineCreated
    /\ BaseModelId \in DOMAIN finetune_records
    /\ \E engine_version \in EngineVersionArgs, run \in {"ok", "raise"},
          update_status \in {"up_to_date", "available"} :
          HandlerFinetuneStep(
              finetune((BaseModelId :> finetune_records[BaseModelId])
                          @@ (FinetunedModelId :> new_record(engine_version, update_status)),
                       engine_storage, model_wrapper, byom_type, FinetunedModelId,
                       [base_model_id |-> BaseModelId,
                        using |-> [engine_version |-> engine_version]], run))
    /\ UNCHANGED byom_type

NextHandler ==
    \/ HandlerInit
    \/ HandlerCreateEngine
    \/ HandlerUpdateEngine
    \/ HandlerCreate
    \/ HandlerPredict
    \/ HandlerDescribe
    \/ HandlerFinetune

SpecHandler == Init /\ [][NextHandler]_vars

\* the name of the file of engine version n
VersionFile(kind, n) == IF n > 1 THEN kind \o "_" \o str(n) ELSE kind

\* C28: BYOMHandler._get_model_proxy(v) returns a model wrapper built from
\* the code and modules stored for engine version v on every call,
\* including a call for a version different from the one an earlier call
\* on the same handler instance requested, so predict, create, finetune
\* and describe run the code of the engine version they selected; a
\* version whose files do not exist raises "Engine version ... does not
\* exists".
C28_ProxyOfRequestedVersion ==
    \A i \in DOMAIN calls :
       (/\ calls[i].op = "_get_model_proxy"
        /\ calls[i].version.type \in {"int", "NoneType"}) =>
          LET n == normalize_engine_version(calls[i].version)
          IN  IF {VersionFile("code", n), VersionFile("modules", n)}
                    \subseteq DOMAIN engine_storage.files
              THEN calls[i].raised = NONE =>
                      /\ calls[i].returned # {}
                      /\ \A w \in calls[i].returned :
                            /\ w.code = engine_storage.files[VersionFile("code", n)]
                            /\ w.modules = engine_storage.files[VersionFile("modules", n)]
                      /\ answer.type = "TABLE" => answer.data = calls[i].returned
              ELSE /\ calls[i].raised = "Exception"
                   /\ calls[i].msg = "Engine version does not exists"

\* C29: whenever BYOMHandler.finetune returns or raises, the finetuned
\* predictor record is in a terminal state: status complete with
\* update_status 'up_to_date' when it returns, status error with the error
\* recorded when it raises (also when the base model is not in status
\* complete); it is never left in status finetuning, its training_stop_at
\* is set, and the base predictor record is not changed.
C29_FinetuneEndsTerminal ==
    [][stmt'.kind = "finetune" =>
          /\ answer'.type # "ERROR" =>
                /\ finetune_records'[FinetunedModelId].status = "complete"
                /\ finetune_records'[FinetunedModelId].update_status = "up_to_date"
          /\ answer'.type = "ERROR" =>
                /\ finetune_records'[FinetunedModelId].status = "error"
                /\ finetune_records'[FinetunedModelId].data = [error |-> answer'.message]
          /\ finetune_records'[FinetunedModelId].status # "finetuning"
          /\ finetune_records'[FinetunedModelId].training_stop_at # {}
          /\ finetune_records'[BaseModelId] = finetune_records[BaseModelId]]_vars

\* a finetune raised after the record was set to finetuning, because the
\* model code raised, and the record ended in status error
C29_Witness ==
    /\ stmt.kind = "finetune"
    /\ answer.type = "ERROR"
    /\ answer.message = "model code raised"
    /\ finetune_records[FinetunedModelId].status = "error"
    /\ finetune_records[FinetunedModelId].training_start_at # {}
    /\ finetune_records[FinetunedModelId].training_stop_at # {}

\* C30: BYOMHandler.update_engine adds exactly one new engine version,
\* numbered max(existing versions) + 1, and stores its code and modules
\* under new keys without overwriting the files of any earlier version;
\* when the check of the new version fails, update_engine raises and the
\* set of registered versions is the same as before the call, so the
\* default engine version create_validation gives to new models (the
\* highest registered version) never names a version that failed its
\* check.
C30_UpdateEngineAddsCheckedVersion ==
    [][stmt'.kind = "update_engine" =>
          /\ engine_storage'.versions \ engine_storage.versions
                \subseteq {new_version(engine_storage)}
          /\ engine_storage.versions \subseteq engine_storage'.versions
          /\ \A k \in DOMAIN engine_storage.files :
                /\ k \in DOMAIN engine_storage'.files
                /\ engine_storage'.files[k] = engine_storage.files[k]
          /\ answer'.type # "ERROR" =>
                /\ new_version(engine_storage) \in engine_storage'.versions
                /\ {"code_" \o new_version(engine_storage),
                    "modules_" \o new_version(engine_storage)}
                      \subseteq DOMAIN engine_storage'.files
          /\ answer'.type = "ERROR" =>
                /\ engine_storage'.versions = engine_storage.versions
                /\ create_validation(NoneVersion, engine_storage')
                      = create_validation(NoneVersion, engine_storage)]_vars

====
